---- MODULE Spec2Model ----
(***************************************************************************)
(* A model of the GPU device selection and pipeline resources of TTauri:   *)
(*   - Device::findBestQueueFamilyIndices  (queue capability negotiation)  *)
(*   - Device::score                       (scoring of one device)         *)
(*   - Instance_base::findBestDeviceForWindow (selection over all devices) *)
(*   - Pipeline_vulkan                     (build, teardown, render)       *)
(* Each of the four has a specification of its own (SpecQueue, SpecScore,  *)
(* SpecSelect, SpecPipeline); the variables of the others stay at their    *)
(* idle values.                                                            *)
(***************************************************************************)
EXTENDS Integers, Sequences, FiniteSets

VARIABLES
    \* --- Device::findBestQueueFamilyIndices, one call ---
    qFamilies,           \* what getQueueFamilyProperties/getSurfaceSupportKHR answer
    queueFamilieScores,  \* the local vector after sort()
    qPlan,               \* the returned vector
    qpc,                 \* "call" before the call, "done" after it
    \* --- Instance_base::findBestDeviceForWindow, called again and again ---
    devices,             \* Instance::devices: what each physical device answers
    deviceState,         \* per device: the members Device::score assigns
    fpc,                 \* "idle", "loop" (inside the for loop), "done" (returned)
    fi,                  \* the position of the for loop in devices
    bestScore,           \* the local bestScore
    bestDevice,          \* the local bestDevice: a position in devices, 0 for nullptr
    scores,              \* the values Device::score returned in this call, in order
    result,              \* the value the last call returned
    prevResult,          \* the value the call before it returned
    returns,             \* how many calls have returned: 0, 1, or 2 for two and more
    \* --- Device::score, one call, the hardware answering as it is asked ---
    spc,                 \* where the call is: "features", "limits", ..., "done"
    sAnswers,            \* what the three requirement checks answered
    sState,              \* the members of the device that the call assigns
    sScore,              \* the local score
    sBest,               \* the local best...Score of the loop that is running
    sSeen,               \* how many elements the running loop has visited
    sRet,                \* the returned value
    \* --- Pipeline_vulkan: the pipelines of one window and the calls on them ---
    pipelines,           \* per pipeline: the members of Pipeline_vulkan
    live,                \* the Vulkan objects that exist (created and not destroyed)
    callLog,             \* per pipeline: what the last call on it created, destroyed, recorded
    buildOrder,          \* per pipeline: the kinds its last buildForDeviceChange created, in order
    lastCall,            \* per pipeline: the last call on it, its arguments and results
    \* --- Window_vulkan: the caller of the pipelines ---
    wState,              \* where the window is between its calls on the pipelines
    generation,          \* how many times the swap-chain has been built
    swapchainFramebuffers, \* Window_vulkan::swapchainFramebuffers
    frameNext,           \* the position in pipelineOrder of the pipeline to call next
    frameImage,          \* the image of the frame being rendered (a position, from 1)
    frameWait,           \* the semaphore the next submission of the frame waits on
    presented,           \* the last presentImageToQueue: the image and the semaphore
    \* --- the swap-chain of a window between resize notifications and frames ---
    swapchainState,      \* "Built" or "Stale"
    swapchainExtent,     \* the extent the swap-chain was last built with
    notifiedExtent,      \* the extent of the last notify_resize
    notifications,       \* notify_resize calls since the last frame acquired its image
    cycles,              \* teardown+build cycles since the last frame acquired its image
    lastFrame,           \* what the last frame saw when it acquired its image
    \* --- devices, their attached windows, and the threads that call them ---
    windows,             \* Device::windows: device -> set of attached windows
    intrinsic,           \* Device::intrinsic: device -> whether the logical device exists
    created,             \* device -> number of createDevice calls so far
    dState,              \* Device::state: "NO_DEVICE" or "READY_TO_DRAW"
    stateMutex,          \* Device::stateMutex: the shared, upgrade and exclusive owners
    guiMutex,            \* TTauri::GUI::mutex: the owning thread, or 0
    windowDevice,             \* Window_base::device: window -> device or "nullptr"
    windowState,         \* Window_base::state
    pc,                  \* thread -> position inside its call
    call,                \* thread -> the call it is in: operation, device, window
    toVisit,             \* thread -> windows its frameUpdate loop has not reached yet
    \* --- the subsystems of the process and the threads that start and stop them ---
    system_status,       \* detail::system_status
    subsystem_deinit_list, \* detail::subsystem_deinit_list: the subsystems whose deinit is registered
    subsystem_mutex,     \* detail::subsystem_mutex: the owning thread, or 0
    check_variable,      \* subsystem -> its check variable
    active,              \* subsystem -> successful init calls minus deinit calls so far
    upc,                 \* thread -> position inside its call
    ucall,               \* thread -> the call it is in: operation and subsystem
    called,              \* thread -> the functions its call in progress has called, in order
    lastReturn,          \* the last call that returned: what it called and what it returned
    \* --- one trace_statistics_type, its writing threads and its reading thread ---
    count,               \* trace_statistics_type::count
    duration,            \* trace_statistics_type::duration
    peak_duration,       \* trace_statistics_type::peak_duration
    version,             \* trace_statistics_type::version
    wpc,                 \* writing thread -> position inside write()
    write,               \* writing thread -> the locals of its write(): d and prev_count
    written,             \* the write() calls that have returned: their number and the sum of d
    started,             \* the number of write() calls begun
    rdpc,                \* the reading thread's position inside read()
    read_result,         \* read(): r, the result being filled in, and whether it was returned
    \* --- one gap_buffer and the last access of an item ---
    buffer,              \* the memory from _begin, and _gap_begin, _gap_size, _it_end as offsets
    got,                 \* the last at() or operator[]: its index and what came back
    \* --- one small_map<K, V, N> and the last calls on it ---
    items,               \* the entries, in the order they were added
    latest,              \* key -> the value of the last insert of it that returned true
    inserted,            \* the last insert: key, value, result and the entries before it
    fetched,             \* the last get: key, default value if any, result, and latest[key] then
    \* --- the windows of the process from construction to destruction ---
    lifecycle,           \* window -> Window_base::state
    attached,            \* window -> whether Window_base::device is not nullptr
    lpc,                 \* window -> "idle", inside a delegate callback, or "destructed"
    returned,            \* window -> the delegate callbacks that have returned
    aborted              \* whether abort() has ended the process

qvars == <<qFamilies, queueFamilieScores, qPlan, qpc>>
fvars == <<devices, deviceState, fpc, fi, bestScore, bestDevice, scores, result, prevResult,
           returns>>
svars == <<spc, sAnswers, sState, sScore, sBest, sSeen, sRet>>
pvars == <<pipelines, live, callLog, buildOrder, lastCall,
           wState, generation, swapchainFramebuffers, frameNext, frameImage, frameWait,
           presented>>
rvars == <<swapchainState, swapchainExtent, notifiedExtent, notifications, cycles, lastFrame>>
oldvars == <<qvars, fvars, svars, pvars>>
dvars == <<windows, intrinsic, created, dState, stateMutex, guiMutex, windowDevice,
           windowState, pc, call, toVisit>>
uvars == <<system_status, subsystem_deinit_list, subsystem_mutex, check_variable, active,
           upc, ucall, called, lastReturn>>
tvars == <<count, duration, peak_duration, version, wpc, write, written, started, rdpc,
           read_result>>
gvars == <<buffer, got>>
mvars == <<items, latest, inserted, fetched>>
lvars == <<lifecycle, attached, lpc, returned, aborted>>
newvars == <<rvars, dvars, uvars, tvars, gvars, mvars, lvars>>
exceptR == <<oldvars, dvars, uvars, tvars, gvars, mvars, lvars>>
exceptD == <<oldvars, rvars, uvars, tvars, gvars, mvars, lvars>>
exceptU == <<oldvars, rvars, dvars, tvars, gvars, mvars, lvars>>
exceptT == <<oldvars, rvars, dvars, uvars, gvars, mvars, lvars>>
exceptG == <<oldvars, rvars, dvars, uvars, tvars, mvars, lvars>>
exceptM == <<oldvars, rvars, dvars, uvars, tvars, gvars, lvars>>
exceptL == <<oldvars, rvars, dvars, uvars, tvars, gvars, mvars>>
vars == <<oldvars, newvars>>

(***************************************************************************)
(* Bounds of the model.                                                    *)
(***************************************************************************)
MaxFamilies == 3
MaxDevices == 3
MaxSurfaceFormats == 2
MaxPresentModes == 2
MaxImages == 2
MaxGenerations == 3
MaxExtent == 3
MaxNotifications == 3
MaxThreads == 2
MaxSubsystems == 2
MaxWrites == 2
MaxDuration == 2
MaxItems == 3
MaxGapSize == 2
MaxKeys == 4
MaxWindows == 2
\* N of small_map<int, int, 3>
SmallMapN == 3

(***************************************************************************)
(* QueueCapabilities: the three role flags, as the set of roles handled.   *)
(* The type lives in a header that is not part of the sources; it is       *)
(* modelled from its uses in Device.cpp and from the data model.           *)
(***************************************************************************)
Roles == {"graphics", "present", "compute"}

handlesEverything(c) == Roles \subseteq c

handlesGraphicsAndPresent(c) == {"graphics", "present"} \subseteq c

handlesGraphicsAndCompute(c) == {"graphics", "compute"} \subseteq c

\* total.handlesAllOff(other): every role of other is already handled by total
handlesAllOff(total, other) == other \subseteq total

\* operator-: the roles of a that b does not handle
capsMinus(a, b) == a \ b

\* operator|=: the union of the roles
capsUnion(a, b) == a \cup b

\* QueueCapabilities::score(), with the weights findBestQueueFamilyIndices logs
QueueCapabilities_score(c) ==
    (IF handlesEverything(c) THEN 10 ELSE 0)
    + (IF handlesGraphicsAndPresent(c) THEN 5 ELSE 0)
    + (IF "graphics" \in c THEN 1 ELSE 0)
    + (IF "present" \in c THEN 1 ELSE 0)
    + (IF "compute" \in c THEN 1 ELSE 0)

(***************************************************************************)
(* The hardware's answer for one queue family: its queueFlags and whether  *)
(* the family can present to the window's surface.                         *)
(***************************************************************************)
QueueFlagBits == {"eGraphics", "eCompute"}

HwFamilies == [queueFlags : SUBSET QueueFlagBits, surfaceSupport : BOOLEAN]

\* The sequences over S of length at most n
SeqUpTo(S, n) == UNION {[1..k -> S] : k \in 0..n}

\* Device.cpp 124-133: the capabilities of one family
familyCapabilities(f) ==
    (IF "eGraphics" \in f.queueFlags THEN {"graphics"} ELSE {})
    \cup (IF f.surfaceSupport THEN {"present"} ELSE {})
    \cup (IF "eCompute" \in f.queueFlags THEN {"compute"} ELSE {})

\* Device.cpp 119-146: the (index, capabilities) pairs in enumeration order,
\* index counting from 0
enumerateFamilies(fams) ==
    [i \in 1..Len(fams) |-> <<i - 1, familyCapabilities(fams[i])>>]

\* (a comparator that orders by ascending score)
scoreIsLess(a, b) == QueueCapabilities_score(a[2]) < QueueCapabilities_score(b[2])

\* Device.cpp 111-113
scoreIsGreater(a, b) == QueueCapabilities_score(a[2]) > QueueCapabilities_score(b[2])

IndexPermutations(n) == {f \in [1..n -> 1..n] : \A i, j \in 1..n : i # j => f[i] # f[j]}

\* Device.cpp 147: std::sort(begin, end, scoreIsGreater). std::sort is not a stable
\* sort: it yields some permutation that is ordered by the comparator, and the
\* relative order of equivalent elements is unspecified.
sortOutcomes(s) ==
    {[i \in 1..Len(s) |-> s[f[i]]] : f \in
        {g \in IndexPermutations(Len(s)) :
            \A i, j \in 1..Len(s) : i < j => ~scoreIsGreater(s[g[j]], s[g[i]])}}

\* (a loop body without the handlesAllOff test, recording the whole capabilities)
greedyAcceptAll(acc, fam) ==
    [plan |-> Append(acc.plan, <<fam[1], fam[2]>>),
     total |-> capsUnion(acc.total, fam[2])]

\* (a loop body that stops accepting after its first accepted family)
greedyFirstOnly(acc, fam) ==
    IF acc.plan = <<>> /\ ~handlesAllOff(acc.total, fam[2])
    THEN [plan |-> Append(acc.plan, <<fam[1], capsMinus(fam[2], acc.total)>>),
          total |-> capsUnion(acc.total, fam[2])]
    ELSE acc

\* Device.cpp 153-159: one iteration of the greedy loop
\* acc = [plan |-> queueFamilyIndicesAndQueueCapabilitiess, total |-> totalCapabilities]
greedyStep(acc, fam) ==
    IF ~handlesAllOff(acc.total, fam[2])
    THEN [plan |-> Append(acc.plan, <<fam[1], capsMinus(fam[2], acc.total)>>),
          total |-> capsUnion(acc.total, fam[2])]
    ELSE acc

\* Device.cpp 149-160: the loop over the sorted families
RECURSIVE greedyLoop(_, _)
greedyLoop(acc, list) ==
    IF list = <<>> THEN acc
    ELSE greedyLoop(greedyStep(acc, Head(list)), Tail(list))

\* Device.cpp 149-162: the plan returned for a sorted list
planOfSorted(sorted) == greedyLoop([plan |-> <<>>, total |-> {}], sorted).plan

(***************************************************************************)
(* The idle values of each part's variables, held while another part runs. *)
(***************************************************************************)
QIdle ==
    /\ qFamilies = <<>>
    /\ queueFamilieScores = <<>>
    /\ qPlan = <<>>
    /\ qpc = "idle"

FIdle ==
    /\ devices = <<>>
    /\ deviceState = <<>>
    /\ fpc = "idle"
    /\ fi = 0
    /\ bestScore = -1
    /\ bestDevice = 0
    /\ scores = <<>>
    /\ result = 0
    /\ prevResult = 0
    /\ returns = 0

SIdle ==
    /\ spc = "idle"
    /\ sAnswers = [features |-> "unasked", limits |-> "unasked", extensions |-> "unasked"]
    /\ sState = <<>>
    /\ sScore = 0
    /\ sBest = 0
    /\ sSeen = 0
    /\ sRet = 0

(***************************************************************************)
(* Vulkan handles. A handle names the object's owner, its kind, the        *)
(* swap-chain generation in whose build it was created and its position,   *)
(* so that two objects created by different calls are different handles.   *)
(***************************************************************************)
Handle(owner, kind, stamp, i) == <<owner, kind, stamp, i>>

\* vk::Pipeline(), vk::DeviceMemory(), ...: the default-constructed handle
NullHandle == Handle("none", "none", 0, 0)

newHandles(owner, kind, stamp, n) == [i \in 1..n |-> Handle(owner, kind, stamp, i)]

Range(seq) == {seq[i] : i \in 1..Len(seq)}

\* Window_vulkan.hpp 39-40: the pipelines of a window
PipelineNames == {"imagePipeline", "flatPipeline"}

\* Pipeline_vulkan.cpp 18-19: the members after construction
newPipeline ==
    [shaderModules |-> <<>>,
     shaderStages |-> <<>>,
     vertexBuffers |-> <<>>,
     vertexBufferMemory |-> NullHandle,
     commandBuffers |-> <<>>,
     commandBuffersValid |-> <<>>,
     recorded |-> <<>>,
     renderFinishedSemaphores |-> <<>>,
     pipelineLayout |-> NullHandle,
     intrinsic |-> NullHandle]

\* no call has been made on the pipeline
noCall ==
    [name |-> "none", count |-> 0, image |-> 0, repeated |-> FALSE, validBefore |-> FALSE,
     submits |-> <<>>, returned |-> NullHandle]

PIdle ==
    /\ pipelines = [p \in PipelineNames |-> newPipeline]
    /\ live = {}
    /\ callLog = [p \in PipelineNames |-> <<>>]
    /\ buildOrder = [p \in PipelineNames |-> <<>>]
    /\ lastCall = [p \in PipelineNames |-> noCall]
    /\ wState = "noSwapchain"
    /\ generation = 0
    /\ swapchainFramebuffers = <<>>
    /\ frameNext = 1
    /\ frameImage = 0
    /\ frameWait = NullHandle
    /\ presented = [image |-> 0, wait |-> NullHandle]

\* the swap-chain has been built and no notification has arrived
RIdle ==
    /\ swapchainState = "Built"
    /\ swapchainExtent = 1
    /\ notifiedExtent = 1
    /\ notifications = 0
    /\ cycles = 0
    /\ lastFrame = [notifications |-> 0, cycles |-> 0, extent |-> 1, notified |-> 1]

DeviceNames == {"A", "B"}
WindowNames == {"w1"}
Threads == 1..MaxThreads
unlocked == [shared |-> {}, upgrade |-> 0, exclusive |-> 0]
noDeviceCall == [op |-> "none", d |-> "A", w |-> "w1"]

\* the devices as constructed, the windows opened and attached to no device,
\* every thread outside any call
DIdle ==
    /\ windows = [d \in DeviceNames |-> {}]
    /\ intrinsic = [d \in DeviceNames |-> FALSE]
    /\ created = [d \in DeviceNames |-> 0]
    /\ dState = [d \in DeviceNames |-> "NO_DEVICE"]
    /\ stateMutex = [d \in DeviceNames |-> unlocked]
    /\ guiMutex = 0
    /\ windowDevice = [w \in WindowNames |-> "nullptr"]
    /\ windowState = [w \in WindowNames |-> "NoDevice"]
    /\ pc = [t \in Threads |-> "idle"]
    /\ call = [t \in Threads |-> noDeviceCall]
    /\ toVisit = [t \in Threads |-> {}]

Subsystems == 1..MaxSubsystems
\* off_value: the value of a check variable (a std::atomic<bool>) while its
\* subsystem is off
off_value == FALSE
noSubsystemCall == [op |-> "none", s |-> 1]

\* the process before start_system: no subsystem started, no thread in a call
UIdle ==
    /\ system_status = "not_started"
    /\ subsystem_deinit_list = <<>>
    /\ subsystem_mutex = 0
    /\ check_variable = [s \in Subsystems |-> off_value]
    /\ active = [s \in Subsystems |-> 0]
    /\ upc = [t \in Threads |-> "idle"]
    /\ ucall = [t \in Threads |-> noSubsystemCall]
    /\ called = [t \in Threads |-> <<>>]
    /\ lastReturn = [op |-> "none", s |-> 1, called |-> <<>>, returned |-> off_value]

noRead == [count |-> 0, duration |-> 0, peak_duration |-> 0, returned |-> FALSE]

\* a trace_statistics_type as constructed, no write() and no read() begun
TIdle ==
    /\ count = 0
    /\ duration = 0
    /\ peak_duration = 0
    /\ version = 0
    /\ wpc = [t \in Threads |-> "idle"]
    /\ write = [t \in Threads |-> [d |-> 0, prev_count |-> 0]]
    /\ written = [count |-> 0, duration |-> 0]
    /\ started = 0
    /\ rdpc = "idle"
    /\ read_result = noRead

noAccess == [op |-> "none", index |-> 0, outcome |-> "none"]

\* gap_buffer(): an empty buffer with no memory, no item accessed
GIdle ==
    /\ buffer = [memory |-> <<>>, gap_begin |-> 0, gap_size |-> 0, it_end |-> 0]
    /\ got = noAccess

Keys == 1..MaxKeys
Values == {"v100", "v1000"}
nullopt == "nullopt"
noInsert == [key |-> 1, value |-> "v100", result |-> FALSE, before |-> <<>>, called |-> FALSE]
noGet == [key |-> 1, default_value |-> nullopt, result |-> nullopt, latest |-> nullopt,
          called |-> FALSE]

\* small_map<K, V, N> items: no entry, nothing called
MIdle ==
    /\ items = <<>>
    /\ latest = [k \in Keys |-> nullopt]
    /\ inserted = noInsert
    /\ fetched = noGet

Windows == 1 .. MaxWindows

\* Window_base::Window_base: state(State::Initializing), no device, nothing called
LIdle ==
    /\ lifecycle = [w \in Windows |-> "Initializing"]
    /\ attached = [w \in Windows |-> FALSE]
    /\ lpc = [w \in Windows |-> "idle"]
    /\ returned = [w \in Windows |-> {}]
    /\ aborted = FALSE

\* the later components at rest
NewIdle == RIdle /\ DIdle /\ UIdle /\ TIdle /\ GIdle /\ MIdle /\ LIdle

(***************************************************************************)
(* SpecQueue: one call of Device::findBestQueueFamilyIndices on any list   *)
(* of at most MaxFamilies queue families.                                  *)
(***************************************************************************)
QInit ==
    /\ qFamilies \in SeqUpTo(HwFamilies, MaxFamilies)
    /\ queueFamilieScores = <<>>
    /\ qPlan = <<>>
    /\ qpc = "call"
    /\ FIdle
    /\ SIdle
    /\ PIdle
    /\ NewIdle

\* Device.cpp 115-163
findBestQueueFamilyIndices ==
    /\ qpc = "call"
    /\ \E sorted \in sortOutcomes(enumerateFamilies(qFamilies)) :
        /\ queueFamilieScores' = sorted
        /\ qPlan' = planOfSorted(sorted)
    /\ qpc' = "done"
    /\ UNCHANGED <<qFamilies, fvars, svars, pvars, newvars>>

QNext == findBestQueueFamilyIndices

SpecQueue == QInit /\ [][QNext]_vars

(***************************************************************************)
(* Device::score: the parts of the function.                               *)
(***************************************************************************)
ColorSpaces == {"eSrgbNonlinear", "eExtendedSrgbNonlinearEXT", "eAdobergbLinearEXT"}

Formats == {"eR8G8B8Unorm", "eR16G16B16A16Sfloat", "eUndefined", "eB8G8R8A8Unorm"}

SurfaceFormats == [colorSpace : ColorSpaces, format : Formats]

PresentModes == {"eImmediate", "eMailbox", "eFifo", "eFifoRelaxed", "eSharedDemandRefresh"}

DeviceTypes == {"eOther", "eIntegratedGpu", "eDiscreteGpu", "eVirtualGpu", "eCpu"}

\* The members of Device that Device::score assigns, before the first call
initialDeviceState ==
    [queueFamilyIndicesAndCapabilities |-> <<>>,
     bestSurfaceFormat |-> "unset",
     bestSurfacePresentMode |-> "unset"]

\* (a loop that keeps the first entry's capabilities only)
deviceCapabilitiesFirstOnly(plan) == IF plan = <<>> THEN {} ELSE plan[1][2]

\* Device.cpp 186-189: the union of the capabilities of the plan's entries
deviceCapabilitiesOf(plan) == UNION {plan[i][2] : i \in 1..Len(plan)}

\* (a verdict that lets a device without graphics+compute through as score 0)
queueVerdictLax(caps) ==
    IF ~handlesGraphicsAndCompute(caps) THEN "noPresent"
    ELSE IF "present" \notin caps THEN "noPresent"
    ELSE "continue"

\* (a verdict that goes on scoring a device without a present queue)
queueVerdictPresentIgnored(caps) ==
    IF ~handlesGraphicsAndCompute(caps) THEN "reject" ELSE "continue"

\* Device.cpp 192-199: -1 without graphics+compute, 0 without present
queueVerdict(caps) ==
    IF ~handlesGraphicsAndCompute(caps) THEN "reject"
    ELSE IF "present" \notin caps THEN "noPresent"
    ELSE "continue"

\* Device.cpp 213-217: the colour space's part of a format's score, -1 for `continue`
colorSpaceScore(cs) ==
    CASE cs = "eSrgbNonlinear" -> 1
      [] cs = "eExtendedSrgbNonlinearEXT" -> 100
      [] OTHER -> -1

\* Device.cpp 219-224: the pixel format's part of a format's score, -1 for `continue`
formatScore(f) ==
    CASE f = "eR8G8B8Unorm" -> 1
      [] f = "eR16G16B16A16Sfloat" -> 10
      [] f = "eUndefined" -> 2
      [] OTHER -> -1

\* (a loop body that keeps the last format it knows instead of the best)
surfaceFormatStepLast(best, format) ==
    IF colorSpaceScore(format.colorSpace) = -1 THEN best
    ELSE IF formatScore(format.format) = -1 THEN best
    ELSE [score |-> colorSpaceScore(format.colorSpace) + formatScore(format.format),
          value |-> format]

\* Device.cpp 208-230: one iteration of the loop over the surface formats
\* best = [score |-> bestSurfaceFormatScore, value |-> bestSurfaceFormat]
surfaceFormatStep(best, format) ==
    IF colorSpaceScore(format.colorSpace) = -1 THEN best
    ELSE IF formatScore(format.format) = -1 THEN best
    ELSE LET score == colorSpaceScore(format.colorSpace) + formatScore(format.format)
         IN IF score > best.score THEN [score |-> score, value |-> format] ELSE best

RECURSIVE surfaceFormatLoop(_, _)
surfaceFormatLoop(best, formats) ==
    IF formats = <<>> THEN best
    ELSE surfaceFormatLoop(surfaceFormatStep(best, Head(formats)), Tail(formats))

\* Device.cpp 246-252: the score of one present mode, -1 for `continue`
presentModeScore(mode) ==
    CASE mode = "eImmediate" -> 1
      [] mode = "eFifoRelaxed" -> 2
      [] mode = "eFifo" -> 3
      [] mode = "eMailbox" -> 10
      [] OTHER -> -1

\* Device.cpp 241-258: one iteration of the loop over the present modes
\* best = [score |-> bestSurfacePresentModeScore, value |-> bestSurfacePresentMode]
presentModeStep(best, mode) ==
    IF presentModeScore(mode) = -1 THEN best
    ELSE IF presentModeScore(mode) > best.score
         THEN [score |-> presentModeScore(mode), value |-> mode]
         ELSE best

RECURSIVE presentModeLoop(_, _)
presentModeLoop(best, modes) ==
    IF modes = <<>> THEN best
    ELSE presentModeLoop(presentModeStep(best, Head(modes)), Tail(modes))

\* (a device type score that does not tell discrete from integrated)
deviceTypeScoreFlat(type) ==
    CASE type = "eCpu" -> 1
      [] type = "eOther" -> 1
      [] type = "eVirtualGpu" -> 2
      [] type = "eIntegratedGpu" -> 3
      [] type = "eDiscreteGpu" -> 3
      [] OTHER -> 0

\* Device.cpp 269-275: the device type's part of the score
deviceTypeScore(type) ==
    CASE type = "eCpu" -> 1
      [] type = "eOther" -> 1
      [] type = "eVirtualGpu" -> 2
      [] type = "eIntegratedGpu" -> 3
      [] type = "eDiscreteGpu" -> 4
      [] OTHER -> 0

(***************************************************************************)
(* Device::score as a whole, for a device whose hardware answers are hw,   *)
(* whose members are st, and for which std::sort yields sorted. The result *)
(* is the returned value and the members after the call. The accumulated   *)
(* score is a uint32_t returned as int; the addends are constants whose    *)
(* sum is at most 110 + 10 + 4, so no sum wraps and the conversion keeps   *)
(* the value; the two `score < best...Score` tests are kept as written.    *)
(***************************************************************************)
Device_score(hw, st, sorted) ==
    IF ~hw.hasRequiredFeatures THEN [ret |-> -1, state |-> st]
    ELSE IF ~hw.meetsRequiredLimits THEN [ret |-> -1, state |-> st]
    ELSE IF ~hw.hasRequiredExtensions THEN [ret |-> -1, state |-> st]
    ELSE
    LET plan == planOfSorted(sorted)
        st1 == [st EXCEPT !.queueFamilyIndicesAndCapabilities = plan]
        verdict == queueVerdict(deviceCapabilitiesOf(plan))
        bestFormat == surfaceFormatLoop([score |-> 0, value |-> st.bestSurfaceFormat],
                                        hw.surfaceFormats)
        st2 == [st1 EXCEPT !.bestSurfaceFormat = bestFormat.value]
        score1 == 0 + bestFormat.score
        bestMode == presentModeLoop([score |-> 0, value |-> st.bestSurfacePresentMode],
                                    hw.presentModes)
        st3 == [st2 EXCEPT !.bestSurfacePresentMode = bestMode.value]
        score2 == score1 + bestMode.score
    IN  IF verdict = "reject" THEN [ret |-> -1, state |-> st1]
        ELSE IF verdict = "noPresent" THEN [ret |-> 0, state |-> st1]
        ELSE IF score1 < bestFormat.score THEN [ret |-> 0, state |-> st2]
        ELSE IF score2 < bestMode.score THEN [ret |-> 0, state |-> st3]
        ELSE [ret |-> score2 + deviceTypeScore(hw.deviceType), state |-> st3]

(***************************************************************************)
(* Instance_base::findBestDeviceForWindow.                                 *)
(***************************************************************************)
\* (a comparison that keeps the first of several equal scores)
scoreReplacesBestStrict(score, best) == score > best

\* Instance_base.cpp 24
scoreReplacesBest(score, best) == score >= best

\* (a switch that treats score 0 like the reject sentinel)
findResultZeroRejected(best, device) == IF best <= 0 THEN 0 ELSE device

\* Instance_base.cpp 30-38: nullptr (0) for bestScore -1, bestDevice otherwise
findResult(best, device) ==
    CASE best = -1 -> 0
      [] best = 0 -> device
      [] OTHER -> device

(***************************************************************************)
(* The physical devices SpecSelect draws its device lists from.            *)
(***************************************************************************)
HwDevice(features, limits, extensions, families, formats, modes, type) ==
    [hasRequiredFeatures |-> features,
     meetsRequiredLimits |-> limits,
     hasRequiredExtensions |-> extensions,
     queueFamilies |-> families,
     surfaceFormats |-> formats,
     presentModes |-> modes,
     deviceType |-> type]

HwFamily(flags, present) == [queueFlags |-> flags, surfaceSupport |-> present]

SurfaceFormat(cs, f) == [colorSpace |-> cs, format |-> f]

\* surface format lists whose best score is 2, 101 and 110
formatsSrgb ==
    <<SurfaceFormat("eSrgbNonlinear", "eB8G8R8A8Unorm"),
      SurfaceFormat("eSrgbNonlinear", "eR8G8B8Unorm")>>

formatsExtended8 ==
    <<SurfaceFormat("eSrgbNonlinear", "eR8G8B8Unorm"),
      SurfaceFormat("eExtendedSrgbNonlinearEXT", "eR8G8B8Unorm")>>

formatsExtended16 ==
    <<SurfaceFormat("eExtendedSrgbNonlinearEXT", "eR16G16B16A16Sfloat"),
      SurfaceFormat("eSrgbNonlinear", "eR8G8B8Unorm")>>

\* a family for everything plus a compute-only family
familiesUniversal ==
    <<HwFamily({"eGraphics", "eCompute"}, TRUE), HwFamily({"eCompute"}, FALSE)>>

\* graphics+compute and compute+present: two families of equal score
familiesSplit ==
    <<HwFamily({"eGraphics", "eCompute"}, FALSE), HwFamily({"eCompute"}, TRUE)>>

\* devices that pass everything and can present
presentingDevices ==
    {HwDevice(TRUE, TRUE, TRUE, familiesUniversal, formats, <<"eFifo", "eMailbox">>, type) :
        formats \in {formatsSrgb, formatsExtended8, formatsExtended16},
        type \in {"eIntegratedGpu", "eDiscreteGpu"}}
    \cup {HwDevice(TRUE, TRUE, TRUE, familiesUniversal, formatsSrgb, <<"eFifo">>,
                   "eIntegratedGpu")}

\* devices with graphics and compute that cannot present to the window
nonPresentingDevices ==
    {HwDevice(TRUE, TRUE, TRUE, <<HwFamily({"eGraphics", "eCompute"}, FALSE)>>,
              formatsExtended16, <<"eFifo", "eMailbox">>, "eDiscreteGpu"),
     HwDevice(TRUE, TRUE, TRUE, <<HwFamily({"eGraphics", "eCompute"}, FALSE)>>,
              formatsSrgb, <<"eFifo">>, "eIntegratedGpu")}

\* devices that are rejected: a missing extension, no compute queue
rejectedDevices ==
    {HwDevice(TRUE, TRUE, FALSE, familiesUniversal,
              formatsExtended16, <<"eFifo", "eMailbox">>, "eDiscreteGpu"),
     HwDevice(TRUE, TRUE, TRUE, <<HwFamily({"eGraphics"}, TRUE)>>,
              formatsExtended8, <<"eFifo">>, "eIntegratedGpu")}

splitQueueDevices ==
    {HwDevice(TRUE, TRUE, TRUE, familiesSplit, formatsSrgb, <<"eFifo">>, "eVirtualGpu")}

\* devices that differ from a presenting device in one list only: a single
\* present mode eFifoRelaxed where the other has eFifo, and the surface format
\* list of formatsExtended16 without its last format
variantDevices ==
    {HwDevice(TRUE, TRUE, TRUE, familiesUniversal, formatsSrgb, <<"eFifoRelaxed">>,
              "eIntegratedGpu"),
     HwDevice(TRUE, TRUE, TRUE, familiesUniversal,
              <<SurfaceFormat("eExtendedSrgbNonlinearEXT", "eR16G16B16A16Sfloat")>>,
              <<"eFifo", "eMailbox">>, "eDiscreteGpu")}

DeviceCatalogue ==
    presentingDevices \cup nonPresentingDevices \cup rejectedDevices \cup splitQueueDevices
        \cup variantDevices

(***************************************************************************)
(* SpecSelect: findBestDeviceForWindow called again and again on one list  *)
(* of at most MaxDevices devices of the catalogue; the hardware answers    *)
(* the same in every call.                                                 *)
(***************************************************************************)
FInit ==
    /\ devices \in SeqUpTo(DeviceCatalogue, MaxDevices)
    /\ deviceState = [i \in 1..Len(devices) |-> initialDeviceState]
    /\ fpc = "idle"
    /\ fi = 0
    /\ bestScore = -1
    /\ bestDevice = 0
    /\ scores = <<>>
    /\ result = 0
    /\ prevResult = 0
    /\ returns = 0
    /\ QIdle
    /\ SIdle
    /\ PIdle
    /\ NewIdle

\* Instance_base.cpp 13-20: the call and the locals' initial values
findStart ==
    /\ fpc \in {"idle", "done"}
    /\ fpc' = "loop"
    /\ fi' = 1
    /\ bestScore' = -1
    /\ bestDevice' = 0
    /\ scores' = <<>>
    /\ prevResult' = result
    /\ UNCHANGED <<devices, deviceState, result, returns, qvars, svars, pvars, newvars>>

\* Instance_base.cpp 20-28: one iteration of the loop, the call of Device::score
\* (Device.cpp 165-278) included
findLoopBody ==
    /\ fpc = "loop"
    /\ fi <= Len(devices)
    /\ \E sorted \in sortOutcomes(enumerateFamilies(devices[fi].queueFamilies)) :
        LET r == Device_score(devices[fi], deviceState[fi], sorted)
        IN  /\ deviceState' = [deviceState EXCEPT ![fi] = r.state]
            /\ scores' = Append(scores, r.ret)
            /\ IF scoreReplacesBest(r.ret, bestScore)
               THEN bestScore' = r.ret /\ bestDevice' = fi
               ELSE UNCHANGED <<bestScore, bestDevice>>
    /\ fi' = fi + 1
    /\ UNCHANGED <<devices, fpc, result, prevResult, returns, qvars, svars, pvars, newvars>>

\* Instance_base.cpp 30-38: the switch and the return
findReturn ==
    /\ fpc = "loop"
    /\ fi > Len(devices)
    /\ result' = findResult(bestScore, bestDevice)
    /\ returns' = IF returns = 0 THEN 1 ELSE 2
    /\ fpc' = "done"
    /\ UNCHANGED <<devices, deviceState, fi, bestScore, bestDevice, scores, prevResult, qvars, svars, pvars, newvars>>

FNext == findStart \/ findLoopBody \/ findReturn

SpecSelect == FInit /\ [][FNext]_vars

(***************************************************************************)
(* SpecScore: one call of Device::score, step by step. The hardware is     *)
(* asked as the code asks it and may answer anything: any outcome of the   *)
(* three requirement checks, any list of at most MaxFamilies queue         *)
(* families, any list of at most MaxSurfaceFormats surface formats, any    *)
(* list of at most MaxPresentModes present modes, any device type.         *)
(***************************************************************************)
SInit ==
    /\ spc = "features"
    /\ sAnswers = [features |-> "unasked", limits |-> "unasked", extensions |-> "unasked"]
    /\ sState = initialDeviceState
    /\ sScore = 0
    /\ sBest = 0
    /\ sSeen = 0
    /\ sRet = 0
    /\ QIdle
    /\ FIdle
    /\ PIdle
    /\ NewIdle

\* Device.cpp 167-173
scoreFeatures ==
    /\ spc = "features"
    /\ \E ok \in BOOLEAN :
        /\ sAnswers' = [sAnswers EXCEPT !.features = IF ok THEN "yes" ELSE "no"]
        /\ IF ~ok THEN sRet' = -1 /\ spc' = "done"
                  ELSE sRet' = sRet /\ spc' = "limits"
    /\ UNCHANGED <<sState, sScore, sBest, sSeen, qvars, fvars, pvars, newvars>>

\* Device.cpp 175-178
scoreLimits ==
    /\ spc = "limits"
    /\ \E ok \in BOOLEAN :
        /\ sAnswers' = [sAnswers EXCEPT !.limits = IF ok THEN "yes" ELSE "no"]
        /\ IF ~ok THEN sRet' = -1 /\ spc' = "done"
                  ELSE sRet' = sRet /\ spc' = "extensions"
    /\ UNCHANGED <<sState, sScore, sBest, sSeen, qvars, fvars, pvars, newvars>>

\* Device.cpp 180-183
scoreExtensions ==
    /\ spc = "extensions"
    /\ \E ok \in BOOLEAN :
        /\ sAnswers' = [sAnswers EXCEPT !.extensions = IF ok THEN "yes" ELSE "no"]
        /\ IF ~ok THEN sRet' = -1 /\ spc' = "done"
                  ELSE sRet' = sRet /\ spc' = "queues"
    /\ UNCHANGED <<sState, sScore, sBest, sSeen, qvars, fvars, pvars, newvars>>

\* Device.cpp 185-199: the queue plan and what it says about the device
scoreQueues ==
    /\ spc = "queues"
    /\ \E families \in SeqUpTo(HwFamilies, MaxFamilies) :
        \E sorted \in sortOutcomes(enumerateFamilies(families)) :
            LET plan == planOfSorted(sorted)
                verdict == queueVerdict(deviceCapabilitiesOf(plan))
            IN  /\ sState' = [sState EXCEPT !.queueFamilyIndicesAndCapabilities = plan]
                /\ CASE verdict = "reject" -> sRet' = -1 /\ spc' = "done"
                     [] verdict = "noPresent" -> sRet' = 0 /\ spc' = "done"
                     [] OTHER -> sRet' = sRet /\ spc' = "formats"
    /\ sBest' = 0
    /\ sSeen' = 0
    /\ UNCHANGED <<sAnswers, sScore, qvars, fvars, pvars, newvars>>

\* Device.cpp 208-230: one iteration of the loop over the surface formats
scoreSurfaceFormat ==
    /\ spc = "formats"
    /\ sSeen < MaxSurfaceFormats
    /\ \E format \in SurfaceFormats :
        LET best == surfaceFormatStep([score |-> sBest, value |-> sState.bestSurfaceFormat],
                                      format)
        IN  /\ sBest' = best.score
            /\ sState' = [sState EXCEPT !.bestSurfaceFormat = best.value]
    /\ sSeen' = sSeen + 1
    /\ UNCHANGED <<spc, sAnswers, sScore, sRet, qvars, fvars, pvars, newvars>>

\* Device.cpp 231-239: after the loop over the surface formats
scoreSurfaceFormatsEnd ==
    /\ spc = "formats"
    /\ sScore' = sScore + sBest
    /\ IF sScore' < sBest THEN sRet' = 0 /\ spc' = "done"
                          ELSE sRet' = sRet /\ spc' = "modes"
    /\ sBest' = 0
    /\ sSeen' = 0
    /\ UNCHANGED <<sAnswers, sState, qvars, fvars, pvars, newvars>>

\* Device.cpp 241-258: one iteration of the loop over the present modes
scorePresentMode ==
    /\ spc = "modes"
    /\ sSeen < MaxPresentModes
    /\ \E mode \in PresentModes :
        LET best == presentModeStep([score |-> sBest, value |-> sState.bestSurfacePresentMode],
                                    mode)
        IN  /\ sBest' = best.score
            /\ sState' = [sState EXCEPT !.bestSurfacePresentMode = best.value]
    /\ sSeen' = sSeen + 1
    /\ UNCHANGED <<spc, sAnswers, sScore, sRet, qvars, fvars, pvars, newvars>>

\* Device.cpp 259-264: after the loop over the present modes
scorePresentModesEnd ==
    /\ spc = "modes"
    /\ sScore' = sScore + sBest
    /\ IF sScore' < sBest THEN sRet' = 0 /\ spc' = "done"
                          ELSE sRet' = sRet /\ spc' = "type"
    /\ UNCHANGED <<sAnswers, sState, sBest, sSeen, qvars, fvars, pvars, newvars>>

\* Device.cpp 266-277: the device type and the return
scoreDeviceType ==
    /\ spc = "type"
    /\ \E type \in DeviceTypes :
        /\ sScore' = sScore + deviceTypeScore(type)
        /\ sRet' = sScore'
    /\ spc' = "done"
    /\ UNCHANGED <<sAnswers, sState, sBest, sSeen, qvars, fvars, pvars, newvars>>

SNext ==
    \/ scoreFeatures
    \/ scoreLimits
    \/ scoreExtensions
    \/ scoreQueues
    \/ scoreSurfaceFormat
    \/ scoreSurfaceFormatsEnd
    \/ scorePresentMode
    \/ scorePresentModesEnd
    \/ scoreDeviceType

SpecScore == SInit /\ [][SNext]_vars

(***************************************************************************)
(* Pipeline_vulkan. The steps of a call work on a record                   *)
(*   [name, stamp, self, live, log]:                                       *)
(* the pipeline's name, the swap-chain generation of the call, the members *)
(* of the pipeline, the objects that exist on the device and what the call *)
(* has created, destroyed and recorded so far. The members that only       *)
(* describe the pipeline's fixed-function state (viewports, scissors, the  *)
(* create-info structures) are left out: no handle is stored in them.      *)
(***************************************************************************)
\* Pipeline.hpp 28-29: a vertex shader and a fragment shader
NrShaderModules == 2

\* the kinds of object of the pipeline that exist
kindsAlive(s) == {h[2] : h \in {x \in s.live : x[1] = s.name}}

\* one more entry of the call's log; alive is taken before the step acts
logged(s, op, kind) ==
    Append(s.log, [op |-> op, kind |-> kind, alive |-> kindsAlive(s)])

\* Pipeline_vulkan.cpp 43-47
buildShaders(s) ==
    LET modules == newHandles(s.name, "shaders", s.stamp, NrShaderModules)
    IN  [s EXCEPT !.self.shaderModules = modules,
                  !.self.shaderStages = [i \in 1..Len(modules) |-> [module |-> modules[i]]],
                  !.live = @ \cup Range(modules),
                  !.log = logged(s, "create", "shaders")]

\* Pipeline_vulkan.cpp 49-58
teardownShaders(s) ==
    [s EXCEPT !.self.shaderModules = <<>>,
              !.self.shaderStages = <<>>,
              !.live = @ \ Range(s.self.shaderModules),
              !.log = logged(s, "destroy", "shaders")]

\* Pipeline_vulkan.cpp 60-76: the buffers and the one memory allocation behind them
buildVertexBuffers(s, nrFrameBuffers) ==
    LET buffers == newHandles(s.name, "vertexBuffers", s.stamp, nrFrameBuffers)
        memory == Handle(s.name, "vertexBuffers", s.stamp, 0)
    IN  [s EXCEPT !.self.vertexBuffers = buffers,
                  !.self.vertexBufferMemory = memory,
                  !.live = @ \cup Range(buffers) \cup {memory},
                  !.log = logged(s, "create", "vertexBuffers")]

\* (a teardown that destroys the buffers and does not free their memory)
teardownVertexBuffersKeepingMemory(s) ==
    [s EXCEPT !.self.vertexBuffers = <<>>,
              !.self.vertexBufferMemory = NullHandle,
              !.live = @ \ Range(s.self.vertexBuffers),
              !.log = logged(s, "destroy", "vertexBuffers")]

\* Pipeline_vulkan.cpp 78-94
teardownVertexBuffers(s) ==
    [s EXCEPT !.self.vertexBuffers = <<>>,
              !.self.vertexBufferMemory = NullHandle,
              !.live = @ \ (Range(s.self.vertexBuffers) \cup {s.self.vertexBufferMemory}),
              !.log = logged(s, "destroy", "vertexBuffers")]

\* std::vector<bool>::resize(n): the first elements are kept, new ones are false
resized(valid, n) == [i \in 1..n |-> IF i <= Len(valid) THEN valid[i] ELSE FALSE]

\* (a loop that stops after the first command buffer)
invalidateFirstOnly(self) ==
    [self EXCEPT !.commandBuffersValid =
        [i \in 1..Len(@) |-> IF i = 1 THEN FALSE ELSE @[i]]]

\* Pipeline_vulkan.cpp 232-237, on the members
invalidateCommandBuffers(self) ==
    [self EXCEPT !.commandBuffersValid = [i \in 1..Len(@) |-> FALSE]]

\* a command buffer that holds no recording
noRecording ==
    [pipeline |-> NullHandle, framebuffer |-> NullHandle, vertexBuffer |-> NullHandle]

\* Pipeline_vulkan.cpp 96-106
buildCommandBuffers(s, nrFrameBuffers) ==
    LET buffers == newHandles(s.name, "commandBuffers", s.stamp, nrFrameBuffers)
        self1 == [s.self EXCEPT !.commandBuffers = buffers,
                                !.recorded = [i \in 1..nrFrameBuffers |-> noRecording],
                                !.commandBuffersValid = resized(@, nrFrameBuffers)]
    IN  [s EXCEPT !.self = invalidateCommandBuffers(self1),
                  !.live = @ \cup Range(buffers),
                  !.log = logged(s, "create", "commandBuffers")]

\* (a teardown that leaves the valid bits as they are)
teardownCommandBuffersKeepingValid(s) ==
    [s EXCEPT !.self.commandBuffers = <<>>,
              !.self.recorded = <<>>,
              !.live = @ \ Range(s.self.commandBuffers),
              !.log = logged(s, "destroy", "commandBuffers")]

\* Pipeline_vulkan.cpp 108-115
teardownCommandBuffers(s) ==
    [s EXCEPT !.self.commandBuffers = <<>>,
              !.self.recorded = <<>>,
              !.self.commandBuffersValid = <<>>,
              !.live = @ \ Range(s.self.commandBuffers),
              !.log = logged(s, "destroy", "commandBuffers")]

\* Pipeline_vulkan.cpp 117-126
buildSemaphores(s, nrFrameBuffers) ==
    LET semaphores == newHandles(s.name, "semaphores", s.stamp, nrFrameBuffers)
    IN  [s EXCEPT !.self.renderFinishedSemaphores = semaphores,
                  !.live = @ \cup Range(semaphores),
                  !.log = logged(s, "create", "semaphores")]

\* (a teardown that forgets the semaphores without destroying them)
teardownSemaphoresLeaking(s) ==
    [s EXCEPT !.self.renderFinishedSemaphores = <<>>,
              !.log = logged(s, "destroy", "semaphores")]

\* Pipeline_vulkan.cpp 128-136
teardownSemaphores(s) ==
    [s EXCEPT !.self.renderFinishedSemaphores = <<>>,
              !.live = @ \ Range(s.self.renderFinishedSemaphores),
              !.log = logged(s, "destroy", "semaphores")]

\* Pipeline_vulkan.cpp 138-185: the layout and the pipeline-state object
buildPipeline(s) ==
    LET layout == Handle(s.name, "pipeline", s.stamp, 1)
        object == Handle(s.name, "pipeline", s.stamp, 2)
    IN  [s EXCEPT !.self.pipelineLayout = layout,
                  !.self.intrinsic = object,
                  !.live = @ \cup {layout, object},
                  !.log = logged(s, "create", "pipeline")]

\* Pipeline_vulkan.cpp 187-192: both objects are destroyed, the members keep
\* the handles
teardownPipeline(s) ==
    [s EXCEPT !.live = @ \ {s.self.intrinsic, s.self.pipelineLayout},
              !.log = logged(s, "destroy", "pipeline")]

\* (a teardown in the order of the build)
teardownForDeviceChangeForward(s) ==
    teardownPipeline(teardownSemaphores(teardownCommandBuffers(
        teardownVertexBuffers(teardownShaders(s)))))

\* Pipeline_vulkan.cpp 194-201
buildForDeviceChange(s, nrFrameBuffers) ==
    buildPipeline(buildSemaphores(buildCommandBuffers(
        buildVertexBuffers(buildShaders(s), nrFrameBuffers), nrFrameBuffers), nrFrameBuffers))

\* Pipeline_vulkan.cpp 203-210
teardownForDeviceChange(s) ==
    teardownShaders(teardownVertexBuffers(teardownCommandBuffers(
        teardownSemaphores(teardownPipeline(s)))))

\* Pipeline_vulkan.cpp 214-221: the body of the if
rebuildPerImage(s, nrFrameBuffers) ==
    buildSemaphores(buildCommandBuffers(buildVertexBuffers(
        teardownVertexBuffers(teardownCommandBuffers(teardownSemaphores(s))),
        nrFrameBuffers), nrFrameBuffers), nrFrameBuffers)

\* (a rebuild that does not look at the count)
buildForSwapchainChangeAlways(s, nrFrameBuffers) ==
    buildPipeline([rebuildPerImage(s, nrFrameBuffers) EXCEPT
                      !.self = invalidateCommandBuffers(@)])

\* (a rebuild that leaves the valid bits as they are)
buildForSwapchainChangeKeepingValid(s, nrFrameBuffers) ==
    buildPipeline(IF nrFrameBuffers # Len(s.self.commandBuffers)
                  THEN rebuildPerImage(s, nrFrameBuffers)
                  ELSE s)

\* Pipeline_vulkan.cpp 212-225
buildForSwapchainChange(s, nrFrameBuffers) ==
    LET s1 == IF nrFrameBuffers # Len(s.self.commandBuffers)
              THEN rebuildPerImage(s, nrFrameBuffers)
              ELSE s
        s2 == [s1 EXCEPT !.self = invalidateCommandBuffers(@)]
    IN  buildPipeline(s2)

\* Pipeline_vulkan.cpp 227-230
teardownForSwapchainChange(s) == teardownPipeline(s)

\* (a test that never finds the command buffer valid)
commandBufferNeverValid(self, imageIndex) == FALSE

\* Pipeline_vulkan.cpp 241-243: the test of validateCommandBuffer
commandBufferIsValid(self, imageIndex) == self.commandBuffersValid[imageIndex]

\* Pipeline_vulkan.cpp 239-274: imageIndex is a position from 1 here, from 0
\* in the code
validateCommandBuffer(s, imageIndex, framebuffers) ==
    IF commandBufferIsValid(s.self, imageIndex) THEN s
    ELSE [s EXCEPT !.self.recorded[imageIndex] =
                       [pipeline |-> s.self.intrinsic,
                        framebuffer |-> framebuffers[imageIndex],
                        vertexBuffer |-> s.self.vertexBuffers[imageIndex]],
                   !.self.commandBuffersValid[imageIndex] = TRUE,
                   !.log = logged(s, "record", "commandBuffers")]

\* (a render that signals the semaphore of the first image)
renderSignallingFirst(s, imageIndex, inputSemaphore, framebuffers) ==
    LET v == validateCommandBuffer(s, imageIndex, framebuffers)
    IN  [after |-> v,
         submits |-> <<[wait |-> inputSemaphore,
                        commandBuffer |-> v.self.commandBuffers[imageIndex],
                        recording |-> v.self.recorded[imageIndex],
                        signal |-> v.self.renderFinishedSemaphores[1]]>>,
         returned |-> v.self.renderFinishedSemaphores[imageIndex]]

\* Pipeline_vulkan.cpp 26-41: the state after the call, the batches handed to
\* graphicsQueue.submit (each with what its command buffer holds) and the
\* returned semaphore
render(s, imageIndex, inputSemaphore, framebuffers) ==
    LET v == validateCommandBuffer(s, imageIndex, framebuffers)
    IN  [after |-> v,
         submits |-> <<[wait |-> inputSemaphore,
                        commandBuffer |-> v.self.commandBuffers[imageIndex],
                        recording |-> v.self.recorded[imageIndex],
                        signal |-> v.self.renderFinishedSemaphores[imageIndex]]>>,
         returned |-> v.self.renderFinishedSemaphores[imageIndex]]

(***************************************************************************)
(* Window_vulkan, the caller. Its source is not part of the sources; the   *)
(* order of its calls is the one the design describes: the swap-chain is   *)
(* built before the pipelines are built against it, the pipelines are torn *)
(* down before the swap-chain is rebuilt, a frame acquires an image, calls *)
(* render of each pipeline in a fixed order handing each the semaphore the *)
(* previous one returned, and presents with the last one; no frame runs    *)
(* during a teardown or a build.                                           *)
(***************************************************************************)
\* the order in which the window calls its pipelines
pipelineOrder == <<"imagePipeline", "flatPipeline">>

\* Window_vulkan.hpp 36
imageAvailableSemaphore == Handle("window", "semaphores", 0, 1)

\* the pipeline the window calls next, and the state of the window after that call
nextPipeline == pipelineOrder[frameNext]

afterCall(during, after) ==
    IF frameNext < Len(pipelineOrder)
    THEN wState' = during /\ frameNext' = frameNext + 1
    ELSE wState' = after /\ frameNext' = 1

\* the record a call on pipeline p starts from
callOn(p) ==
    [name |-> p, stamp |-> generation, self |-> pipelines[p], live |-> live, log |-> <<>>]

\* the call on pipeline p has ended in record r
returnFrom(p, r) ==
    /\ pipelines' = [pipelines EXCEPT ![p] = r.self]
    /\ live' = r.live
    /\ callLog' = [callLog EXCEPT ![p] = r.log]

(***************************************************************************)
(* SpecPipeline: a window with two pipelines, its swap-chain built at most *)
(* MaxGenerations times with 1..MaxImages images.                          *)
(***************************************************************************)
PInit ==
    /\ PIdle
    /\ QIdle
    /\ FIdle
    /\ SIdle
    /\ NewIdle

\* the window (re)builds its swap-chain: the old framebuffers are destroyed,
\* nrSwapchainImages new ones are created
Window_buildSwapchain ==
    /\ wState \in {"noSwapchain", "swapchainTorn"}
    /\ generation < MaxGenerations
    /\ \E nrSwapchainImages \in 1..MaxImages :
        LET framebuffers == newHandles("window", "framebuffers", generation + 1,
                                       nrSwapchainImages)
        IN  /\ swapchainFramebuffers' = framebuffers
            /\ live' = (live \ Range(swapchainFramebuffers)) \cup Range(framebuffers)
    /\ generation' = generation + 1
    /\ wState' = IF wState = "noSwapchain" THEN "deviceBuild" ELSE "swapchainBuild"
    /\ frameNext' = 1
    /\ UNCHANGED <<pipelines, callLog, buildOrder, lastCall, frameImage, frameWait,
                   presented, qvars, fvars, svars, newvars>>

\* Pipeline_vulkan.cpp 194-201, called for the next pipeline of the window
callBuildForDeviceChange ==
    /\ wState = "deviceBuild"
    /\ LET p == nextPipeline
           r == buildForDeviceChange(callOn(p), Len(swapchainFramebuffers))
       IN  /\ returnFrom(p, r)
           /\ buildOrder' = [buildOrder EXCEPT ![p] = [i \in 1..Len(r.log) |-> r.log[i].kind]]
           /\ lastCall' = [lastCall EXCEPT ![p] =
                  [noCall EXCEPT !.name = "buildForDeviceChange",
                                 !.count = Len(swapchainFramebuffers)]]
    /\ afterCall("deviceBuild", "ready")
    /\ UNCHANGED <<generation, swapchainFramebuffers, frameImage, frameWait, presented,
                   qvars, fvars, svars, newvars>>

\* Pipeline_vulkan.cpp 203-210
callTeardownForDeviceChange ==
    /\ wState \in {"ready", "deviceTeardown"}
    /\ LET p == nextPipeline
           r == teardownForDeviceChange(callOn(p))
       IN  /\ returnFrom(p, r)
           /\ lastCall' = [lastCall EXCEPT ![p] =
                  [noCall EXCEPT !.name = "teardownForDeviceChange"]]
    /\ afterCall("deviceTeardown", "noSwapchain")
    /\ UNCHANGED <<buildOrder, generation, swapchainFramebuffers, frameImage, frameWait,
                   presented, qvars, fvars, svars, newvars>>

\* Pipeline_vulkan.cpp 227-230
callTeardownForSwapchainChange ==
    /\ wState \in {"ready", "swapchainTeardown"}
    /\ LET p == nextPipeline
           r == teardownForSwapchainChange(callOn(p))
       IN  /\ returnFrom(p, r)
           /\ lastCall' = [lastCall EXCEPT ![p] =
                  [noCall EXCEPT !.name = "teardownForSwapchainChange"]]
    /\ afterCall("swapchainTeardown", "swapchainTorn")
    /\ UNCHANGED <<buildOrder, generation, swapchainFramebuffers, frameImage, frameWait,
                   presented, qvars, fvars, svars, newvars>>

\* Pipeline_vulkan.cpp 212-225
callBuildForSwapchainChange ==
    /\ wState = "swapchainBuild"
    /\ LET p == nextPipeline
           r == buildForSwapchainChange(callOn(p), Len(swapchainFramebuffers))
       IN  /\ returnFrom(p, r)
           /\ lastCall' = [lastCall EXCEPT ![p] =
                  [noCall EXCEPT !.name = "buildForSwapchainChange",
                                 !.count = Len(swapchainFramebuffers)]]
    /\ afterCall("swapchainBuild", "ready")
    /\ UNCHANGED <<buildOrder, generation, swapchainFramebuffers, frameImage, frameWait,
                   presented, qvars, fvars, svars, newvars>>

\* Pipeline_vulkan.cpp 232-237, called on any pipeline between two frames
callInvalidateCommandBuffers ==
    /\ wState = "ready"
    /\ \E p \in PipelineNames :
        /\ pipelines' = [pipelines EXCEPT ![p] = invalidateCommandBuffers(@)]
        /\ callLog' = [callLog EXCEPT ![p] = <<>>]
        /\ lastCall' = [lastCall EXCEPT ![p] =
               [noCall EXCEPT !.name = "invalidateCommandBuffers"]]
    /\ UNCHANGED <<live, buildOrder, wState, generation, swapchainFramebuffers, frameNext,
                   frameImage, frameWait, presented, qvars, fvars, svars, newvars>>

\* Window_vulkan.hpp 62: a frame starts with the image the swap-chain hands out
Window_acquireNextImageFromSwapchain ==
    /\ wState = "ready"
    /\ \E imageIndex \in 1..Len(swapchainFramebuffers) : frameImage' = imageIndex
    /\ frameWait' = imageAvailableSemaphore
    /\ wState' = "frame"
    /\ frameNext' = 1
    /\ UNCHANGED <<pipelines, live, callLog, buildOrder, lastCall, generation,
                   swapchainFramebuffers, presented, qvars, fvars, svars, newvars>>

\* Pipeline_vulkan.cpp 26-41, called for the next pipeline of the frame
callRender ==
    /\ wState = "frame"
    /\ frameNext <= Len(pipelineOrder)
    /\ LET p == nextPipeline
           r == render(callOn(p), frameImage, frameWait, swapchainFramebuffers)
       IN  /\ returnFrom(p, r.after)
           /\ lastCall' = [lastCall EXCEPT ![p] =
                  [name |-> "render",
                   count |-> 0,
                   image |-> frameImage,
                   repeated |-> (lastCall[p].name = "render"
                                    /\ lastCall[p].image = frameImage),
                   validBefore |-> pipelines[p].commandBuffersValid[frameImage],
                   submits |-> r.submits,
                   returned |-> r.returned]]
           /\ frameWait' = r.returned
    /\ frameNext' = frameNext + 1
    /\ UNCHANGED <<buildOrder, wState, generation, swapchainFramebuffers, frameImage,
                   presented, qvars, fvars, svars, newvars>>

\* Window_vulkan.hpp 63: the frame ends with the presentation of the image
Window_presentImageToQueue ==
    /\ wState = "frame"
    /\ frameNext > Len(pipelineOrder)
    /\ presented' = [image |-> frameImage, wait |-> frameWait]
    /\ wState' = "ready"
    /\ frameNext' = 1
    /\ UNCHANGED <<pipelines, live, callLog, buildOrder, lastCall, generation,
                   swapchainFramebuffers, frameImage, frameWait, qvars, fvars, svars, newvars>>

PNext ==
    \/ Window_buildSwapchain
    \/ callBuildForDeviceChange
    \/ callTeardownForDeviceChange
    \/ callTeardownForSwapchainChange
    \/ callBuildForSwapchainChange
    \/ callInvalidateCommandBuffers
    \/ Window_acquireNextImageFromSwapchain
    \/ callRender
    \/ Window_presentImageToQueue

SpecPipeline == PInit /\ [][PNext]_vars

(***************************************************************************)
(* SpecPipelineCalls: the member functions of Pipeline_vulkan called in    *)
(* any order on one pipeline (the calls on one pipeline do not touch the   *)
(* other), with any image count from 1 to MaxImages; render() is called    *)
(* for an image below the number of command buffers.  Every build takes a  *)
(* stamp of its own for the handles it creates; at most MaxGenerations     *)
(* builds are made.                                                        *)
(***************************************************************************)
\* the call on pipeline p has ended in record r; of the calls only a render()
\* is remembered, until the next call, and no log is kept
returnedFrom(p, r, description) ==
    /\ pipelines' = [pipelines EXCEPT ![p] = r.self]
    /\ live' = r.live
    /\ lastCall' = [lastCall EXCEPT ![p] = description]
    /\ UNCHANGED <<callLog, buildOrder, wState, swapchainFramebuffers, frameNext,
                   frameImage, frameWait, presented, qvars, fvars, svars, newvars>>

\* Pipeline_vulkan.cpp 194-201
directBuildForDeviceChange(p, nrFrameBuffers) ==
    /\ generation < MaxGenerations
    /\ generation' = generation + 1
    /\ returnedFrom(p, buildForDeviceChange([callOn(p) EXCEPT !.stamp = generation + 1],
                                            nrFrameBuffers),
                    noCall)

\* Pipeline_vulkan.cpp 203-210
directTeardownForDeviceChange(p) ==
    /\ UNCHANGED generation
    /\ returnedFrom(p, teardownForDeviceChange(callOn(p)),
                    noCall)

\* Pipeline_vulkan.cpp 212-225
directBuildForSwapchainChange(p, nrFrameBuffers) ==
    /\ generation < MaxGenerations
    /\ generation' = generation + 1
    /\ returnedFrom(p, buildForSwapchainChange([callOn(p) EXCEPT !.stamp = generation + 1],
                                               nrFrameBuffers),
                    noCall)

\* Pipeline_vulkan.cpp 227-230
directTeardownForSwapchainChange(p) ==
    /\ UNCHANGED generation
    /\ returnedFrom(p, teardownForSwapchainChange(callOn(p)),
                    noCall)

\* Pipeline_vulkan.cpp 232-237
directInvalidateCommandBuffers(p) ==
    /\ UNCHANGED generation
    /\ returnedFrom(p, [callOn(p) EXCEPT !.self = invalidateCommandBuffers(@)],
                    noCall)

\* Pipeline_vulkan.cpp 26-41: render(imageIndex) for an image below the number
\* of command buffers, with the framebuffers of a swap-chain of MaxImages images
directRender(p, imageIndex) ==
    /\ imageIndex \in 1..Len(pipelines[p].commandBuffers)
    /\ UNCHANGED generation
    /\ LET r == render(callOn(p), imageIndex, imageAvailableSemaphore,
                       newHandles("window", "framebuffers", 0, MaxImages))
       IN  returnedFrom(p, r.after,
                        [noCall EXCEPT !.name = "render",
                                       !.image = imageIndex,
                                       !.returned = r.returned])

PCallsNext ==
    \E p \in {pipelineOrder[1]} :
        \/ \E nrFrameBuffers \in 1..MaxImages : directBuildForDeviceChange(p, nrFrameBuffers)
        \/ directTeardownForDeviceChange(p)
        \/ \E nrFrameBuffers \in 1..MaxImages : directBuildForSwapchainChange(p, nrFrameBuffers)
        \/ directTeardownForSwapchainChange(p)
        \/ directInvalidateCommandBuffers(p)
        \/ \E imageIndex \in 1..MaxImages : directRender(p, imageIndex)

SpecPipelineCalls == PInit /\ [][PCallsNext]_vars

(***************************************************************************)
(* SpecResize: the swap-chain of one window between resize notifications   *)
(* and frames. The window's source (Window_vulkan.cpp) is not part of the  *)
(* sources; the steps are the design's: notify_resize marks the swap-chain *)
(* Stale, a frame rebuilds a Stale swap-chain (teardown, then build with   *)
(* the surface's extent) before it acquires its image, and a presentation  *)
(* that reports out-of-date marks the swap-chain Stale for the next frame. *)
(* Extents are 1..MaxExtent, all of them not empty.                        *)
(***************************************************************************)
RInit ==
    /\ RIdle
    /\ QIdle
    /\ FIdle
    /\ SIdle
    /\ PIdle
    /\ DIdle
    /\ UIdle
    /\ TIdle
    /\ GIdle
    /\ MIdle
    /\ LIdle

\* (a notification that rebuilds the swap-chain at once)
notify_resize_rebuilding ==
    /\ notifications < MaxNotifications
    /\ \E new_extent \in 1..MaxExtent :
        /\ notifiedExtent' = new_extent
        /\ swapchainExtent' = new_extent
    /\ swapchainState' = "Built"
    /\ cycles' = cycles + 1
    /\ notifications' = notifications + 1
    /\ UNCHANGED <<lastFrame, exceptR>>

\* notify_resize(new_extent)
notify_resize ==
    /\ notifications < MaxNotifications
    /\ \E new_extent \in 1..MaxExtent : notifiedExtent' = new_extent
    /\ swapchainState' = "Stale"
    /\ notifications' = notifications + 1
    /\ UNCHANGED <<swapchainExtent, cycles, lastFrame, exceptR>>

\* render_frame: the rebuild of a Stale swap-chain, the acquisition of the image,
\* the pipelines, and the presentation, which may report out-of-date
render_frame ==
    /\ \E outOfDate \in BOOLEAN :
        LET rebuilds == IF swapchainState = "Stale" THEN 1 ELSE 0
            extent == IF swapchainState = "Stale" THEN notifiedExtent ELSE swapchainExtent
        IN  /\ swapchainExtent' = extent
            /\ lastFrame' = [notifications |-> notifications, cycles |-> cycles + rebuilds,
                             extent |-> extent, notified |-> notifiedExtent]
            /\ swapchainState' = IF outOfDate THEN "Stale" ELSE "Built"
    /\ notifications' = 0
    /\ cycles' = 0
    /\ UNCHANGED <<notifiedExtent, exceptR>>

RNext == notify_resize \/ render_frame

SpecResize == RInit /\ [][RNext]_vars

(***************************************************************************)
(* SpecDevice: threads calling Device::add, Device::remove and             *)
(* Device::frameUpdate on the devices. Every step between two accesses of  *)
(* shared state is an action. stateMutex is a boost::shared_mutex: shared  *)
(* owners coexist with one upgrade owner; the upgrade owner becomes the    *)
(* exclusive owner once no shared owner is left; try_lock_shared fails     *)
(* while there is an exclusive owner. Window::frameUpdate is not part of   *)
(* the sources: it is a begin and an end step around the window's frame.   *)
(***************************************************************************)
DInit ==
    /\ DIdle
    /\ QIdle
    /\ FIdle
    /\ SIdle
    /\ PIdle
    /\ RIdle
    /\ UIdle
    /\ TIdle
    /\ GIdle
    /\ MIdle
    /\ LIdle

at(t, position) == pc[t] = position
goto(t, position) == pc' = [pc EXCEPT ![t] = position]
deviceOf(t) == call[t].d
windowOf(t) == call[t].w

\* Device::add(window): if (!intrinsic), read outside the lock
Device_add(t) ==
    /\ at(t, "idle")
    /\ \E d \in DeviceNames, w \in WindowNames :
        /\ call' = [call EXCEPT ![t] = [op |-> "add", d |-> d, w |-> w]]
        /\ goto(t, IF intrinsic[d] THEN "lock" ELSE "initializeDevice")
    /\ UNCHANGED <<windows, intrinsic, created, dState, stateMutex, guiMutex, windowDevice,
                   windowState, toVisit, exceptD>>

\* Device::initializeDevice: createDevice, the queues, state = READY_TO_DRAW
Device_initializeDevice(t) ==
    /\ at(t, "initializeDevice")
    /\ intrinsic' = [intrinsic EXCEPT ![deviceOf(t)] = TRUE]
    /\ created' = [created EXCEPT ![deviceOf(t)] = @ + 1]
    /\ dState' = [dState EXCEPT ![deviceOf(t)] = "READY_TO_DRAW"]
    /\ goto(t, "lock")
    /\ UNCHANGED <<windows, stateMutex, guiMutex, windowDevice, windowState, call, toVisit, exceptD>>

\* Device::remove(window)
Device_remove(t) ==
    /\ at(t, "idle")
    /\ \E d \in DeviceNames, w \in WindowNames :
        call' = [call EXCEPT ![t] = [op |-> "remove", d |-> d, w |-> w]]
    /\ goto(t, "lock")
    /\ UNCHANGED <<windows, intrinsic, created, dState, stateMutex, guiMutex, windowDevice,
                   windowState, toVisit, exceptD>>

\* boost::upgrade_lock lock(stateMutex)
lock_upgrade(t) ==
    /\ at(t, "lock")
    /\ stateMutex[deviceOf(t)].exclusive = 0
    /\ stateMutex[deviceOf(t)].upgrade = 0
    /\ stateMutex' = [stateMutex EXCEPT ![deviceOf(t)].upgrade = t]
    /\ goto(t, "upgrade")
    /\ UNCHANGED <<windows, intrinsic, created, dState, guiMutex, windowDevice, windowState,
                   call, toVisit, exceptD>>

\* (an upgrade that does not wait for the shared owners)
upgrade_to_unique_at_once(t) ==
    /\ at(t, "upgrade")
    /\ stateMutex' = [stateMutex EXCEPT ![deviceOf(t)].upgrade = 0, ![deviceOf(t)].exclusive = t]
    /\ goto(t, IF call[t].op = "add" THEN "insert" ELSE "setDevice")
    /\ UNCHANGED <<windows, intrinsic, created, dState, guiMutex, windowDevice, windowState,
                   call, toVisit, exceptD>>

\* boost::upgrade_to_unique_lock uniqueLock(lock)
upgrade_to_unique(t) ==
    /\ at(t, "upgrade")
    /\ stateMutex[deviceOf(t)].shared = {}
    /\ stateMutex' = [stateMutex EXCEPT ![deviceOf(t)].upgrade = 0, ![deviceOf(t)].exclusive = t]
    /\ goto(t, IF call[t].op = "add" THEN "insert" ELSE "setDevice")
    /\ UNCHANGED <<windows, intrinsic, created, dState, guiMutex, windowDevice, windowState,
                   call, toVisit, exceptD>>

\* Device::add: windows.insert(window)
Device_add_insert(t) ==
    /\ at(t, "insert")
    /\ windows' = [windows EXCEPT ![deviceOf(t)] = @ \cup {windowOf(t)}]
    /\ goto(t, "setDevice")
    /\ UNCHANGED <<intrinsic, created, dState, stateMutex, guiMutex, windowDevice, windowState,
                   call, toVisit, exceptD>>

\* (a setDevice that replaces the device pointer before it tears down)
Window_setDevice_replacing_first(t) ==
    /\ at(t, "setDevice")
    /\ guiMutex = 0
    /\ guiMutex' = t
    /\ windowDevice' = [windowDevice EXCEPT ![windowOf(t)] =
                            IF call[t].op = "add" THEN deviceOf(t) ELSE "nullptr"]
    /\ IF windowDevice[windowOf(t)] # "nullptr"
       THEN /\ windowState' = [windowState EXCEPT ![windowOf(t)] = "DeviceLost"]
            /\ goto(t, "teardown")
       ELSE /\ UNCHANGED windowState
            /\ goto(t, "assign")
    /\ UNCHANGED <<windows, intrinsic, created, dState, stateMutex, call, toVisit, exceptD>>

\* Window_base::setDevice: the scoped_lock, and if (device) state = DeviceLost
\* and the start of teardown()
Window_setDevice(t) ==
    /\ at(t, "setDevice")
    /\ guiMutex = 0
    /\ guiMutex' = t
    /\ IF windowDevice[windowOf(t)] # "nullptr"
       THEN /\ windowState' = [windowState EXCEPT ![windowOf(t)] = "DeviceLost"]
            /\ goto(t, "teardown")
       ELSE /\ UNCHANGED windowState
            /\ goto(t, "assign")
    /\ UNCHANGED <<windows, intrinsic, created, dState, stateMutex, windowDevice, call, toVisit,
                   exceptD>>

\* Window_base::setDevice: teardown() returns
Window_teardown(t) ==
    /\ at(t, "teardown")
    /\ goto(t, "assign")
    /\ UNCHANGED <<windows, intrinsic, created, dState, stateMutex, guiMutex, windowDevice,
                   windowState, call, toVisit, exceptD>>

\* Window_base::setDevice: device = newDevice, and the end of the scoped_lock
Window_setDevice_assign(t) ==
    /\ at(t, "assign")
    /\ windowDevice' = [windowDevice EXCEPT ![windowOf(t)] =
                    IF call[t].op = "add" THEN deviceOf(t) ELSE "nullptr"]
    /\ guiMutex' = 0
    /\ goto(t, IF call[t].op = "add" THEN "unlock" ELSE "erase")
    /\ UNCHANGED <<windows, intrinsic, created, dState, stateMutex, windowState, call,
                   toVisit, exceptD>>

\* Device::remove: windows.erase(window)
Device_remove_erase(t) ==
    /\ at(t, "erase")
    /\ windows' = [windows EXCEPT ![deviceOf(t)] = @ \ {windowOf(t)}]
    /\ goto(t, "unlock")
    /\ UNCHANGED <<intrinsic, created, dState, stateMutex, guiMutex, windowDevice, windowState,
                   call, toVisit, exceptD>>

\* the end of Device::add and Device::remove: the locks are released
unlock(t) ==
    /\ at(t, "unlock")
    /\ stateMutex' = [stateMutex EXCEPT ![deviceOf(t)].exclusive = 0]
    /\ goto(t, "idle")
    /\ call' = [call EXCEPT ![t] = noDeviceCall]
    /\ UNCHANGED <<windows, intrinsic, created, dState, guiMutex, windowDevice, windowState,
                   toVisit, exceptD>>

\* Device::frameUpdate: a try_lock_shared that succeeds, the test of state and
\* the start of the loop over windows (a try_lock_shared that fails returns
\* with nothing changed)
Device_frameUpdate(t) ==
    /\ at(t, "idle")
    /\ \E d \in DeviceNames :
        /\ stateMutex[d].exclusive = 0
        /\ stateMutex' = [stateMutex EXCEPT ![d].shared = @ \cup {t}]
        /\ call' = [call EXCEPT ![t] = [op |-> "frameUpdate", d |-> d, w |-> "w1"]]
        /\ IF dState[d] = "READY_TO_DRAW" /\ windows[d] # {}
           THEN /\ toVisit' = [toVisit EXCEPT ![t] = windows[d]]
                /\ goto(t, "iterate")
           ELSE /\ UNCHANGED toVisit
                /\ goto(t, "unlock_shared")
    /\ UNCHANGED <<windows, intrinsic, created, dState, guiMutex, windowDevice, windowState,
                   exceptD>>

\* Device::frameUpdate: window->frameUpdate(...) is entered for the next window
Window_frameUpdate(t) ==
    /\ at(t, "iterate")
    /\ \E w \in toVisit[t] :
        /\ call' = [call EXCEPT ![t].w = w]
        /\ toVisit' = [toVisit EXCEPT ![t] = @ \ {w}]
    /\ goto(t, "inWindow")
    /\ UNCHANGED <<windows, intrinsic, created, dState, stateMutex, guiMutex, windowDevice,
                   windowState, exceptD>>

\* Device::frameUpdate: window->frameUpdate(...) returns
Window_frameUpdate_return(t) ==
    /\ at(t, "inWindow")
    /\ goto(t, IF toVisit[t] = {} THEN "unlock_shared" ELSE "iterate")
    /\ UNCHANGED <<windows, intrinsic, created, dState, stateMutex, guiMutex, windowDevice,
                   windowState, call, toVisit, exceptD>>

\* Device::frameUpdate: stateMutex.unlock_shared()
unlock_shared(t) ==
    /\ at(t, "unlock_shared")
    /\ stateMutex' = [stateMutex EXCEPT ![deviceOf(t)].shared = @ \ {t}]
    /\ goto(t, "idle")
    /\ call' = [call EXCEPT ![t] = noDeviceCall]
    /\ UNCHANGED <<windows, intrinsic, created, dState, guiMutex, windowDevice, windowState,
                   toVisit, exceptD>>

DNext ==
    \E t \in Threads :
        \/ Device_add(t)
        \/ Device_initializeDevice(t)
        \/ Device_remove(t)
        \/ lock_upgrade(t)
        \/ upgrade_to_unique(t)
        \/ Device_add_insert(t)
        \/ Window_setDevice(t)
        \/ Window_teardown(t)
        \/ Window_setDevice_assign(t)
        \/ Device_remove_erase(t)
        \/ unlock(t)
        \/ Device_frameUpdate(t)
        \/ Window_frameUpdate(t)
        \/ Window_frameUpdate_return(t)
        \/ unlock_shared(t)

SpecDevice == DInit /\ [][DNext]_vars

(***************************************************************************)
(* SpecSubsystem: threads calling start_system, start_subsystem,           *)
(* stop_subsystem and shutdown_system. A subsystem stands for its check    *)
(* variable, its init function and its deinit function. A step is the code *)
(* between two points where another thread can act: outside the mutex, or  *)
(* around a call of a deinit function.                                     *)
(***************************************************************************)
UInit ==
    /\ UIdle
    /\ QIdle
    /\ FIdle
    /\ SIdle
    /\ PIdle
    /\ RIdle
    /\ DIdle
    /\ TIdle
    /\ GIdle
    /\ MIdle
    /\ LIdle

\* std::erase(subsystem_deinit_list, deinit_function)
erase(list, s) == SelectSeq(list, LAMBDA x : x # s)

\* the return of a call
return(op, s, functions, value) ==
    lastReturn' = [op |-> op, s |-> s, called |-> functions, returned |-> value]

\* start_system(): called once, when the process starts
start_system(t) ==
    /\ upc[t] = "idle"
    /\ subsystem_mutex = 0
    /\ system_status = "not_started"
    /\ system_status' = "running"
    /\ return("start_system", 1, <<>>, off_value)
    /\ UNCHANGED <<subsystem_deinit_list, subsystem_mutex, check_variable, active, upc,
                   ucall, called, exceptU>>

\* start_subsystem: the load of the check variable outside the mutex
start_subsystem(t) ==
    /\ upc[t] = "idle"
    /\ \E s \in Subsystems :
        IF check_variable[s] = off_value
        THEN /\ ucall' = [ucall EXCEPT ![t] = [op |-> "start_subsystem", s |-> s]]
             /\ upc' = [upc EXCEPT ![t] = "detail"]
             /\ UNCHANGED lastReturn
        ELSE /\ return("start_subsystem", s, <<>>, check_variable[s])
             /\ UNCHANGED <<upc, ucall>>
    /\ UNCHANGED <<system_status, subsystem_deinit_list, subsystem_mutex, check_variable,
                   active, called, exceptU>>

\* (a start that does not load the check variable again under the mutex)
detail_start_subsystem_unchecked(t) ==
    LET s == ucall[t].s
    IN  /\ upc[t] = "detail"
        /\ subsystem_mutex = 0
        /\ IF system_status # "running"
           THEN /\ return("start_subsystem", s, <<>>, off_value)
                /\ UNCHANGED <<subsystem_deinit_list, check_variable, active>>
           ELSE \E new_value \in BOOLEAN :
                    /\ return("start_subsystem", s, <<<<"init", s>>>>, new_value)
                    /\ IF new_value # off_value
                       THEN /\ subsystem_deinit_list' = Append(subsystem_deinit_list, s)
                            /\ check_variable' = [check_variable EXCEPT ![s] = new_value]
                            /\ active' = [active EXCEPT ![s] = @ + 1]
                       ELSE UNCHANGED <<subsystem_deinit_list, check_variable, active>>
        /\ upc' = [upc EXCEPT ![t] = "idle"]
        /\ ucall' = [ucall EXCEPT ![t] = noSubsystemCall]
        /\ UNCHANGED <<system_status, subsystem_mutex, called, exceptU>>

\* (a start that does not look at system_status)
detail_start_subsystem_any_status(t) ==
    LET s == ucall[t].s
    IN  /\ upc[t] = "detail"
        /\ subsystem_mutex = 0
        /\ IF check_variable[s] # off_value
           THEN /\ return("start_subsystem", s, <<>>, check_variable[s])
                /\ UNCHANGED <<subsystem_deinit_list, check_variable, active>>
           ELSE \E new_value \in BOOLEAN :
                    /\ return("start_subsystem", s, <<<<"init", s>>>>, new_value)
                    /\ IF new_value # off_value
                       THEN /\ subsystem_deinit_list' = Append(subsystem_deinit_list, s)
                            /\ check_variable' = [check_variable EXCEPT ![s] = new_value]
                            /\ active' = [active EXCEPT ![s] = @ + 1]
                       ELSE UNCHANGED <<subsystem_deinit_list, check_variable, active>>
        /\ upc' = [upc EXCEPT ![t] = "idle"]
        /\ ucall' = [ucall EXCEPT ![t] = noSubsystemCall]
        /\ UNCHANGED <<system_status, subsystem_mutex, called, exceptU>>

\* detail::start_subsystem: the whole body, under the mutex
detail_start_subsystem(t) ==
    LET s == ucall[t].s
    IN  /\ upc[t] = "detail"
        /\ subsystem_mutex = 0
        /\ IF check_variable[s] # off_value
           THEN /\ return("start_subsystem", s, <<>>, check_variable[s])
                /\ UNCHANGED <<subsystem_deinit_list, check_variable, active>>
           ELSE IF system_status # "running"
           THEN /\ return("start_subsystem", s, <<>>, off_value)
                /\ UNCHANGED <<subsystem_deinit_list, check_variable, active>>
           ELSE \E new_value \in BOOLEAN :
                    /\ return("start_subsystem", s, <<<<"init", s>>>>, new_value)
                    /\ IF new_value # off_value
                       THEN /\ subsystem_deinit_list' = Append(subsystem_deinit_list, s)
                            /\ check_variable' = [check_variable EXCEPT ![s] = new_value]
                            /\ active' = [active EXCEPT ![s] = @ + 1]
                       ELSE UNCHANGED <<subsystem_deinit_list, check_variable, active>>
        /\ upc' = [upc EXCEPT ![t] = "idle"]
        /\ ucall' = [ucall EXCEPT ![t] = noSubsystemCall]
        /\ UNCHANGED <<system_status, subsystem_mutex, called, exceptU>>

\* (a stop that loads the check variable and leaves it as it is)
stop_subsystem_loading(t) ==
    /\ upc[t] = "idle"
    /\ subsystem_mutex = 0
    /\ \E s \in Subsystems :
        IF check_variable[s] = off_value
        THEN /\ return("stop_subsystem", s, <<>>, off_value)
             /\ UNCHANGED <<subsystem_deinit_list, subsystem_mutex, upc, ucall>>
        ELSE /\ ucall' = [ucall EXCEPT ![t] = [op |-> "stop_subsystem", s |-> s]]
             /\ subsystem_deinit_list' = erase(subsystem_deinit_list, s)
             /\ subsystem_mutex' = t
             /\ upc' = [upc EXCEPT ![t] = "stop_deinit"]
             /\ UNCHANGED lastReturn
    /\ UNCHANGED <<system_status, check_variable, active, called, exceptU>>

\* stop_subsystem: the lock, the exchange of the check variable, the erase
stop_subsystem(t) ==
    /\ upc[t] = "idle"
    /\ subsystem_mutex = 0
    /\ \E s \in Subsystems :
        /\ check_variable' = [check_variable EXCEPT ![s] = off_value]
        /\ IF check_variable[s] = off_value
           THEN /\ return("stop_subsystem", s, <<>>, off_value)
                /\ UNCHANGED <<subsystem_deinit_list, subsystem_mutex, upc, ucall>>
           ELSE /\ ucall' = [ucall EXCEPT ![t] = [op |-> "stop_subsystem", s |-> s]]
                /\ subsystem_deinit_list' = erase(subsystem_deinit_list, s)
                /\ subsystem_mutex' = t
                /\ upc' = [upc EXCEPT ![t] = "stop_deinit"]
                /\ UNCHANGED lastReturn
    /\ UNCHANGED <<system_status, active, called, exceptU>>

\* stop_subsystem: return deinit_function(), and the end of the scoped_lock
stop_subsystem_deinit(t) ==
    /\ upc[t] = "stop_deinit"
    /\ return("stop_subsystem", ucall[t].s, <<<<"deinit", ucall[t].s>>>>, off_value)
    /\ active' = [active EXCEPT ![ucall[t].s] = @ - 1]
    /\ subsystem_mutex' = 0
    /\ upc' = [upc EXCEPT ![t] = "idle"]
    /\ ucall' = [ucall EXCEPT ![t] = noSubsystemCall]
    /\ UNCHANGED <<system_status, subsystem_deinit_list, check_variable, called, exceptU>>

\* shutdown_system, called once when the process ends: subsystem_mutex.lock(),
\* system_status = shutdown
shutdown_system(t) ==
    /\ upc[t] = "idle"
    /\ system_status # "shutdown"
    /\ subsystem_mutex = 0
    /\ subsystem_mutex' = t
    /\ system_status' = "shutdown"
    /\ ucall' = [ucall EXCEPT ![t] = [op |-> "shutdown_system", s |-> 1]]
    /\ upc' = [upc EXCEPT ![t] = "loop"]
    /\ UNCHANGED <<subsystem_deinit_list, check_variable, active, called, lastReturn, exceptU>>

\* (a shutdown that takes the deinit functions from the front of the list)
shutdown_system_pop_front(t) ==
    /\ upc[t] = "loop"
    /\ subsystem_mutex' = 0
    /\ IF subsystem_deinit_list = <<>>
       THEN /\ upc' = [upc EXCEPT ![t] = "idle"]
            /\ ucall' = [ucall EXCEPT ![t] = noSubsystemCall]
            /\ return("shutdown_system", 1, called[t], off_value)
            /\ called' = [called EXCEPT ![t] = <<>>]
            /\ UNCHANGED subsystem_deinit_list
       ELSE /\ ucall' = [ucall EXCEPT ![t].s = Head(subsystem_deinit_list)]
            /\ subsystem_deinit_list' = Tail(subsystem_deinit_list)
            /\ upc' = [upc EXCEPT ![t] = "deinit"]
            /\ UNCHANGED <<called, lastReturn>>
    /\ UNCHANGED <<system_status, check_variable, active, exceptU>>

\* shutdown_system: the test of the loop; back(), pop_back() and unlock(), or
\* the unlock() after the loop and the return
shutdown_system_pop(t) ==
    /\ upc[t] = "loop"
    /\ subsystem_mutex' = 0
    /\ IF subsystem_deinit_list = <<>>
       THEN /\ upc' = [upc EXCEPT ![t] = "idle"]
            /\ ucall' = [ucall EXCEPT ![t] = noSubsystemCall]
            /\ return("shutdown_system", 1, called[t], off_value)
            /\ called' = [called EXCEPT ![t] = <<>>]
            /\ UNCHANGED subsystem_deinit_list
       ELSE /\ ucall' = [ucall EXCEPT ![t].s =
                            subsystem_deinit_list[Len(subsystem_deinit_list)]]
            /\ subsystem_deinit_list' =
                    SubSeq(subsystem_deinit_list, 1, Len(subsystem_deinit_list) - 1)
            /\ upc' = [upc EXCEPT ![t] = "deinit"]
            /\ UNCHANGED <<called, lastReturn>>
    /\ UNCHANGED <<system_status, check_variable, active, exceptU>>

\* shutdown_system: deinit()
shutdown_system_deinit(t) ==
    /\ upc[t] = "deinit"
    /\ called' = [called EXCEPT ![t] = Append(@, <<"deinit", ucall[t].s>>)]
    /\ active' = [active EXCEPT ![ucall[t].s] = @ - 1]
    /\ upc' = [upc EXCEPT ![t] = "relock"]
    /\ ucall' = [ucall EXCEPT ![t].s = 1]
    /\ UNCHANGED <<system_status, subsystem_deinit_list, subsystem_mutex, check_variable,
                   lastReturn, exceptU>>

\* shutdown_system: subsystem_mutex.lock() at the end of the loop's body
shutdown_system_relock(t) ==
    /\ upc[t] = "relock"
    /\ subsystem_mutex = 0
    /\ subsystem_mutex' = t
    /\ upc' = [upc EXCEPT ![t] = "loop"]
    /\ UNCHANGED <<system_status, subsystem_deinit_list, check_variable, active, ucall,
                   called, lastReturn, exceptU>>

UNext ==
    \E t \in Threads :
        \/ start_system(t)
        \/ start_subsystem(t)
        \/ detail_start_subsystem(t)
        \/ stop_subsystem(t)
        \/ stop_subsystem_deinit(t)
        \/ shutdown_system(t)
        \/ shutdown_system_pop(t)
        \/ shutdown_system_deinit(t)
        \/ shutdown_system_relock(t)

SpecSubsystem == UInit /\ [][UNext]_vars

(***************************************************************************)
(* SpecTrace: threads calling trace_statistics_type::write() and one       *)
(* logging thread calling read(). Every access of an atomic member is a    *)
(* step of its own, except the update of peak_duration, which goes with    *)
(* the access of duration next to it.                                      *)
(***************************************************************************)
TInit ==
    /\ TIdle
    /\ QIdle
    /\ FIdle
    /\ SIdle
    /\ PIdle
    /\ RIdle
    /\ DIdle
    /\ UIdle
    /\ GIdle
    /\ MIdle
    /\ LIdle

\* write(d): prev_count = count.fetch_add(1)
write_count(t) ==
    /\ wpc[t] = "idle"
    /\ started < MaxWrites
    /\ started' = started + 1
    /\ \E d \in 1..MaxDuration : write' = [write EXCEPT ![t] = [d |-> d, prev_count |-> count]]
    /\ count' = count + 1
    /\ wpc' = [wpc EXCEPT ![t] = "duration"]
    /\ UNCHANGED <<duration, peak_duration, version, written, rdpc, read_result, exceptT>>

\* write(d): duration.fetch_add(d.count()), and the loop that raises
\* peak_duration to d.count()
write_duration(t) ==
    /\ wpc[t] = "duration"
    /\ duration' = duration + write[t].d
    /\ peak_duration' = IF write[t].d > peak_duration THEN write[t].d ELSE peak_duration
    /\ wpc' = [wpc EXCEPT ![t] = "version"]
    /\ UNCHANGED <<count, version, write, written, started, rdpc, read_result, exceptT>>

\* write(d): version.store(prev_count + 1), and the return
write_version(t) ==
    /\ wpc[t] = "version"
    /\ version' = write[t].prev_count + 1
    /\ written' = [count |-> written.count + 1, duration |-> written.duration + write[t].d]
    /\ wpc' = [wpc EXCEPT ![t] = "idle"]
    /\ write' = [write EXCEPT ![t] = [d |-> 0, prev_count |-> 0]]
    /\ UNCHANGED <<count, duration, peak_duration, started, rdpc, read_result, exceptT>>

\* read(): r.peak_duration = {} on entry, and read_result.count = count.load() at the
\* head of the loop
read_count ==
    /\ rdpc \in {"idle", "count"}
    /\ read_result' = [read_result EXCEPT !.count = count,
                      !.peak_duration = IF rdpc = "idle" THEN 0 ELSE @,
                      !.returned = FALSE]
    /\ rdpc' = "duration"
    /\ UNCHANGED <<count, duration, peak_duration, version, wpc, write, written, started,
                   exceptT>>

\* read(): read_result.duration = duration.load(), tmp = peak_duration.exchange(0)
read_duration ==
    /\ rdpc = "duration"
    /\ read_result' = [read_result EXCEPT !.duration = duration,
                      !.peak_duration = IF peak_duration > @ THEN peak_duration ELSE @]
    /\ peak_duration' = 0
    /\ rdpc' = "version"
    /\ UNCHANGED <<count, duration, version, wpc, write, written, started, exceptT>>

\* read(): while (read_result.count != version.load()), and the return after the loop
read_version ==
    /\ rdpc = "version"
    /\ IF read_result.count # version
       THEN /\ rdpc' = "count"
            /\ UNCHANGED read_result
       ELSE /\ rdpc' = "idle"
            /\ read_result' = [read_result EXCEPT !.returned = TRUE]
    /\ UNCHANGED <<count, duration, peak_duration, version, wpc, write, written, started,
                   exceptT>>

TNext ==
    \/ \E t \in Threads :
        \/ write_count(t)
        \/ write_duration(t)
        \/ write_version(t)
    \/ read_count
    \/ read_duration
    \/ read_version

SpecTrace == TInit /\ [][TNext]_vars

(***************************************************************************)
(* SpecGap: item access of a gap_buffer. The buffer is its memory from     *)
(* _begin (the items left of the gap, the cells of the gap, the items      *)
(* right of it) and _gap_begin, _gap_size and _it_end as offsets from      *)
(* _begin. It starts with any content of up to MaxItems items, any gap     *)
(* position and a gap of up to MaxGapSize cells.                           *)
(***************************************************************************)
Items == {"x", "y"}
gapCell == "gap"

\* the buffers that hold the items of content with the gap before item gap_begin
gap_buffer(content, gap_begin, gap_size) ==
    [memory |-> SubSeq(content, 1, gap_begin)
                    \o [i \in 1..gap_size |-> gapCell]
                    \o SubSeq(content, gap_begin + 1, Len(content)),
     gap_begin |-> gap_begin,
     gap_size |-> gap_size,
     it_end |-> Len(content)]

GInit ==
    /\ \E n \in 0..MaxItems :
        \E content \in [1..n -> Items], gap_begin \in 0..n, gap_size \in 0..MaxGapSize :
            buffer = gap_buffer(content, gap_begin, gap_size)
    /\ got = noAccess
    /\ QIdle
    /\ FIdle
    /\ SIdle
    /\ PIdle
    /\ RIdle
    /\ DIdle
    /\ UIdle
    /\ TIdle
    /\ MIdle
    /\ LIdle

\* size()
size(b) == b.it_end

\* get_pointer_from_index(index), as an offset from _begin
get_pointer_from_index(b, index) ==
    IF index < b.gap_begin THEN index ELSE index + b.gap_size

\* what reading through a pointer can give: the item, when the pointer is at
\* an item; anything, when it is inside the gap or past the memory
dereference(b, pointer) ==
    IF pointer < Len(b.memory) /\ b.memory[pointer + 1] # gapCell
    THEN {b.memory[pointer + 1]}
    ELSE Items \cup {"crash"}

\* operator[](index)
index_operator(b, index) == dereference(b, get_pointer_from_index(b, index))

\* at(index)
gap_buffer_at(b, index) ==
    IF index < size(b)
    THEN {"out_of_range"}
    ELSE dereference(b, get_pointer_from_index(b, index))

\* a call of at(index), with any index up to one past size()
call_at ==
    /\ \E index \in 0..(size(buffer) + 1) :
        \E outcome \in gap_buffer_at(buffer, index) :
            got' = [op |-> "at", index |-> index, outcome |-> outcome]
    /\ UNCHANGED <<buffer, exceptG>>

\* a call of operator[](index), with index < size() as its tt_axiom requires
call_index_operator ==
    /\ \E index \in 0..(size(buffer) - 1) :
        \E outcome \in index_operator(buffer, index) :
            got' = [op |-> "operator[]", index |-> index, outcome |-> outcome]
    /\ UNCHANGED <<buffer, exceptG>>

GNext == call_at \/ call_index_operator

SpecGap == GInit /\ [][GNext]_vars

(***************************************************************************)
(* SpecSmallMap: the calls on one small_map<K, V, N>. The class itself     *)
(* (TTauri/small_map.hpp) is not part of the sources, only its test is:    *)
(* the map is an array of at most N entries, searched from the front;      *)
(* insert replaces the value of a key that is present and otherwise        *)
(* appends an entry while there is room.                                   *)
(***************************************************************************)
MInit ==
    /\ MIdle
    /\ QIdle
    /\ FIdle
    /\ SIdle
    /\ PIdle
    /\ RIdle
    /\ DIdle
    /\ UIdle
    /\ TIdle
    /\ GIdle
    /\ LIdle

\* the positions of the entries with the key
positionsOf(entries, key) == {i \in 1..Len(entries) : entries[i].key = key}
\* the position of the first of them
firstOf(entries, key) ==
    CHOOSE i \in positionsOf(entries, key) : \A j \in positionsOf(entries, key) : i <= j

\* (an insert that appends an entry whether or not the key is present)
small_map_insert_appending ==
    \E key \in Keys, value \in Values :
        LET stored == Len(items) < SmallMapN
        IN  /\ items' = IF stored THEN Append(items, [key |-> key, value |-> value])
                        ELSE items
            /\ inserted' = [key |-> key, value |-> value, result |-> stored,
                            before |-> items, called |-> TRUE]
            /\ latest' = IF stored THEN [latest EXCEPT ![key] = value] ELSE latest
            /\ UNCHANGED <<fetched, exceptM>>

\* (an insert that appends an entry whether or not there is room)
small_map_insert_unbounded ==
    \E key \in Keys, value \in Values :
        LET present == positionsOf(items, key) # {}
        IN  /\ items' = IF present
                        THEN [items EXCEPT ![firstOf(items, key)].value = value]
                        ELSE Append(items, [key |-> key, value |-> value])
            /\ inserted' = [key |-> key, value |-> value, result |-> TRUE,
                            before |-> items, called |-> TRUE]
            /\ latest' = [latest EXCEPT ![key] = value]
            /\ UNCHANGED <<fetched, exceptM>>

\* insert(key, value)
small_map_insert ==
    \E key \in Keys, value \in Values :
        LET present == positionsOf(items, key) # {}
            stored == present \/ Len(items) < SmallMapN
        IN  /\ items' = IF present
                        THEN [items EXCEPT ![firstOf(items, key)].value = value]
                        ELSE IF stored
                        THEN Append(items, [key |-> key, value |-> value])
                        ELSE items
            /\ inserted' = [key |-> key, value |-> value, result |-> stored,
                            before |-> items, called |-> TRUE]
            /\ latest' = IF stored THEN [latest EXCEPT ![key] = value] ELSE latest
            /\ UNCHANGED <<fetched, exceptM>>

\* get(key) and get(key, default_value)
small_map_get ==
    \E key \in Keys, default_value \in Values \cup {nullopt} :
        /\ fetched' = [key |-> key, default_value |-> default_value,
                       result |-> IF positionsOf(items, key) # {}
                                  THEN items[firstOf(items, key)].value
                                  ELSE default_value,
                       latest |-> latest[key], called |-> TRUE]
        /\ UNCHANGED <<items, latest, inserted, exceptM>>

MNext == small_map_insert \/ small_map_get

SpecSmallMap == MInit /\ [][MNext]_vars

(***************************************************************************)
(* Window_base from its constructor to its destructor                      *)
(* (TTauri/GUI/src/Window_base.cpp).  The calls on one window are made one *)
(* at a time; a delegate callback is a step of its own, between the call   *)
(* and the assignment of the state that follows its return.  abort() ends  *)
(* the process: nothing is called after it.                                *)
(***************************************************************************)
LInit ==
    /\ LIdle
    /\ QIdle
    /\ FIdle
    /\ SIdle
    /\ PIdle
    /\ RIdle
    /\ DIdle
    /\ UIdle
    /\ TIdle
    /\ GIdle
    /\ MIdle

callable(w) == ~aborted /\ lpc[w] = "idle"

\* Window_base::initialize and openingWindow up to the call of
\* delegate->openingWindow(*thisWindow)
Window_openingWindow(w) ==
    /\ callable(w)
    /\ lpc' = [lpc EXCEPT ![w] = "openingWindow"]
    /\ UNCHANGED <<lifecycle, attached, returned, aborted, exceptL>>

\* (an openingWindow that assigns the state before it calls the delegate)
delegate_openingWindow_return_unchanged(w) ==
    /\ ~aborted
    /\ lpc[w] = "openingWindow"
    /\ returned' = [returned EXCEPT ![w] = @ \cup {"openingWindow"}]
    /\ lpc' = [lpc EXCEPT ![w] = "idle"]
    /\ UNCHANGED <<lifecycle, attached, aborted, exceptL>>

\* delegate->openingWindow(*thisWindow) returns; state = State::NoDevice
delegate_openingWindow_return(w) ==
    /\ ~aborted
    /\ lpc[w] = "openingWindow"
    /\ returned' = [returned EXCEPT ![w] = @ \cup {"openingWindow"}]
    /\ lifecycle' = [lifecycle EXCEPT ![w] = "NoDevice"]
    /\ lpc' = [lpc EXCEPT ![w] = "idle"]
    /\ UNCHANGED <<attached, aborted, exceptL>>

\* Window_base::closingWindow up to the call of delegate->closingWindow(*thisWindow)
Window_closingWindow(w) ==
    /\ callable(w)
    /\ lpc' = [lpc EXCEPT ![w] = "closingWindow"]
    /\ UNCHANGED <<lifecycle, attached, returned, aborted, exceptL>>

\* delegate->closingWindow(*thisWindow) returns; state = State::NoWindow
delegate_closingWindow_return(w) ==
    /\ ~aborted
    /\ lpc[w] = "closingWindow"
    /\ returned' = [returned EXCEPT ![w] = @ \cup {"closingWindow"}]
    /\ lifecycle' = [lifecycle EXCEPT ![w] = "NoWindow"]
    /\ lpc' = [lpc EXCEPT ![w] = "idle"]
    /\ UNCHANGED <<attached, aborted, exceptL>>

\* Window_base::setDevice, the whole call: if (device) state = DeviceLost and
\* teardown(); device = newDevice
Window_base_setDevice(w, newDevice) ==
    /\ callable(w)
    /\ lifecycle' = [lifecycle EXCEPT ![w] = IF attached[w] THEN "DeviceLost" ELSE @]
    /\ attached' = [attached EXCEPT ![w] = newDevice]
    /\ UNCHANGED <<lpc, returned, aborted, exceptL>>

\* (a destructor that does not look at the state)
Window_base_destructor_unchecked(w) ==
    /\ callable(w)
    /\ lpc' = [lpc EXCEPT ![w] = "destructed"]
    /\ UNCHANGED <<lifecycle, attached, returned, aborted, exceptL>>

\* Window_base::~Window_base: abort() unless state == State::NoWindow
Window_base_destructor(w) ==
    /\ callable(w)
    /\ IF lifecycle[w] # "NoWindow"
       THEN /\ aborted' = TRUE
            /\ UNCHANGED lpc
       ELSE /\ lpc' = [lpc EXCEPT ![w] = "destructed"]
            /\ UNCHANGED aborted
    /\ UNCHANGED <<lifecycle, attached, returned, exceptL>>

LNext ==
    \E w \in Windows :
        \/ Window_openingWindow(w)
        \/ delegate_openingWindow_return(w)
        \/ Window_closingWindow(w)
        \/ delegate_closingWindow_return(w)
        \/ \E newDevice \in BOOLEAN : Window_base_setDevice(w, newDevice)
        \/ Window_base_destructor(w)

SpecWindow == LInit /\ [][LNext]_vars

(***************************************************************************)
(* Properties of Device::findBestQueueFamilyIndices (SpecQueue).           *)
(***************************************************************************)
\* The union of the capabilities of the entries of a vector of pairs
capabilitiesOf(pairs) == UNION {pairs[i][2] : i \in 1..Len(pairs)}

\* The union of the capabilities of all the input families
inputCapabilities == capabilitiesOf(enumerateFamilies(qFamilies))

\* The sets of family positions whose capabilities together cover the input's
coveringSets ==
    {I \in SUBSET (1..Len(qFamilies)) :
        UNION {familyCapabilities(qFamilies[i]) : i \in I} = inputCapabilities}

minimalCover ==
    CHOOSE n \in 0..Len(qFamilies) :
        /\ \E I \in coveringSets : Cardinality(I) = n
        /\ \A I \in coveringSets : Cardinality(I) >= n

\* C5: after the call, the union of the capabilities recorded in the returned plan
\* equals the union of the capabilities of all input families.
C5_UnionIsCovered ==
    qpc = "done" => capabilitiesOf(qPlan) = inputCapabilities

\* C5 witness: three families that together offer all three roles, of which the
\* plan takes two and passes one over.
C5_Witness ==
    /\ qpc = "done"
    /\ Len(qFamilies) = 3
    /\ Len(qPlan) = 2
    /\ inputCapabilities = Roles

\* C6: for any two distinct entries A and B of the returned plan, the capabilities
\* recorded for A minus those recorded for B are not empty.
C6_NoEmptyDifference ==
    qpc = "done" =>
        \A i, j \in 1..Len(qPlan) :
            i # j => capsMinus(qPlan[i][2], qPlan[j][2]) # {}

\* C6 witness: a plan of two entries whose second entry records less than its
\* family offers (the difference from the running total was taken).
C6_Witness ==
    /\ qpc = "done"
    /\ Len(qPlan) = 2
    /\ qPlan[2][2] # familyCapabilities(qFamilies[qPlan[2][1] + 1])

\* C7: the number of entries of the returned plan is the least number of input
\* families whose capabilities together cover every role the whole input covers.
C7_PlanIsMinimal ==
    qpc = "done" => Len(qPlan) = minimalCover

\* C7 witness: three different two-role families, none of which covers the input
\* alone; two of them are returned.
C7_Witness ==
    /\ qpc = "done"
    /\ Len(qFamilies) = 3
    /\ \A i \in 1..3 : Cardinality(familyCapabilities(qFamilies[i])) = 2
    /\ \A i, j \in 1..3 : i # j => qFamilies[i] # qFamilies[j]
    /\ Len(qPlan) = 2

\* The outcome of the sort that keeps families of equal score in enumeration order
stableSortOutcome ==
    CHOOSE p \in sortOutcomes(enumerateFamilies(qFamilies)) :
        \A i, j \in 1..Len(p) :
            (i < j /\ ~scoreIsGreater(p[i], p[j])) => p[i][1] < p[j][1]

\* C8: families of equal score are considered in enumeration order (the lowest
\* family index first), so the returned plan is the one that order gives: it is
\* a function of the input list alone.
C8_PlanFollowsEnumerationOrder ==
    qpc = "done" => qPlan = planOfSorted(stableSortOutcome)

(***************************************************************************)
(* Properties of Instance_base::findBestDeviceForWindow (SpecSelect).      *)
(***************************************************************************)
\* C1: the returned device has the maximum score, and of several devices with that
\* score it is the first in the order of the devices list.
C1_FirstMaximumWins ==
    (fpc = "done" /\ result # 0) =>
        /\ \A j \in 1..Len(scores) : scores[j] <= scores[result]
        /\ \A j \in 1..Len(scores) : j < result => scores[j] < scores[result]

\* C2: nullptr is returned if and only if every score is -1 (an empty list
\* included); with a score of 0 or more a device is returned; the returned device
\* did not score -1.
C2_NullIffAllRejected ==
    fpc = "done" =>
        /\ (result = 0) <=> (\A i \in 1..Len(scores) : scores[i] = -1)
        /\ (\E i \in 1..Len(scores) : scores[i] >= 0) => result # 0
        /\ result # 0 => scores[result] # -1

\* C2 witness: a device is returned from a list whose last device was rejected
\* and in which no device scores above 0.
C2_Witness ==
    /\ fpc = "done"
    /\ result # 0
    /\ bestScore = 0
    /\ scores[Len(scores)] = -1

\* C3: a call on the same device list returns what the call before it returned.
C3_SameWinnerTwice ==
    (fpc = "done" /\ returns = 2) => result = prevResult

\* C3 witness: a second call has returned a device of a list of several, after
\* Device::score stored a queue plan that starts with family 1 for some device.
C3_Witness ==
    /\ fpc = "done"
    /\ returns = 2
    /\ result # 0
    /\ Len(devices) >= 2
    /\ \E i \in 1..Len(devices) :
        /\ deviceState[i].queueFamilyIndicesAndCapabilities # <<>>
        /\ deviceState[i].queueFamilyIndicesAndCapabilities[1][1] = 1

\* The capabilities a device's queue families offer together
hwCapabilities(hw) == capabilitiesOf(enumerateFamilies(hw.queueFamilies))

passesHardRequirements(hw) ==
    hw.hasRequiredFeatures /\ hw.meetsRequiredLimits /\ hw.hasRequiredExtensions

\* The best surface format score and the best present mode score of a device
bestFormatScoreOf(hw) == surfaceFormatLoop([score |-> 0, value |-> "unset"], hw.surfaceFormats).score

bestModeScoreOf(hw) == presentModeLoop([score |-> 0, value |-> "unset"], hw.presentModes).score

\* Scenario A: the devices at positions r, i and d are the three of the list; r
\* misses a required extension, i is a usable integrated GPU covering present,
\* graphics and compute, d is a usable discrete GPU covering them too that offers
\* mailbox and an extended-range surface format.
scenarioA(r, i, d) ==
    /\ Len(devices) = 3
    /\ {r, i, d} = {1, 2, 3}
    /\ ~devices[r].hasRequiredExtensions
    /\ devices[i].deviceType = "eIntegratedGpu"
    /\ passesHardRequirements(devices[i])
    /\ hwCapabilities(devices[i]) = Roles
    /\ devices[d].deviceType = "eDiscreteGpu"
    /\ passesHardRequirements(devices[d])
    /\ hwCapabilities(devices[d]) = Roles
    /\ \E m \in 1..Len(devices[d].presentModes) : devices[d].presentModes[m] = "eMailbox"
    /\ \E f \in 1..Len(devices[d].surfaceFormats) :
        /\ devices[d].surfaceFormats[f].colorSpace = "eExtendedSrgbNonlinearEXT"
        /\ formatScore(devices[d].surfaceFormats[f].format) # -1

\* C4 as stated: in scenario A, whatever the order, the discrete GPU scores
\* strictly higher than the integrated one and is the device returned.
C4_DiscreteAlwaysWins ==
    fpc = "done" =>
        \A r, i, d \in 1..3 :
            scenarioA(r, i, d) => (scores[d] > scores[i] /\ result = d)

\* C4 amended: in scenario A, whatever the order, if the integrated GPU's best
\* surface format score plus best present mode score is not above the discrete
\* GPU's, the discrete GPU scores strictly higher and is the device returned.
C4_DiscreteWinsUnlessOutscored ==
    fpc = "done" =>
        \A r, i, d \in 1..3 :
            (/\ scenarioA(r, i, d)
             /\ bestFormatScoreOf(devices[i]) + bestModeScoreOf(devices[i])
                    <= bestFormatScoreOf(devices[d]) + bestModeScoreOf(devices[d]))
            => (/\ scores[r] = -1
                /\ scores[i] > 0
                /\ scores[d] > scores[i]
                /\ result = d)

\* C4 witness: scenario A with the discrete GPU enumerated first and the rejected
\* device last, both GPUs with the same surface formats and present modes.
C4_Witness ==
    /\ fpc = "done"
    /\ scenarioA(3, 2, 1)
    /\ devices[1].surfaceFormats = devices[2].surfaceFormats
    /\ devices[1].presentModes = devices[2].presentModes
    /\ result = 1

\* A scored device that met the hard requirements and whose stored queue plan
\* covers graphics and compute but not present
scoredWithoutPresent(i) ==
    /\ i <= Len(scores)
    /\ passesHardRequirements(devices[i])
    /\ handlesGraphicsAndCompute(
           deviceCapabilitiesOf(deviceState[i].queueFamilyIndicesAndCapabilities))
    /\ "present" \notin
           deviceCapabilitiesOf(deviceState[i].queueFamilyIndicesAndCapabilities)

\* C10: a device that meets the hard requirements and whose queue plan covers
\* graphics and compute but not present scores exactly 0, whatever its formats,
\* present modes and type; when no device scores higher a device of score 0 is
\* returned, and it is this one when every other device was rejected.
C10_NoPresentScoresZero ==
    \A i \in 1..Len(devices) :
        scoredWithoutPresent(i) =>
            /\ scores[i] = 0
            /\ (fpc = "done" /\ \A j \in 1..Len(scores) : scores[j] <= 0)
                => (result # 0 /\ scores[result] = 0)
            /\ (fpc = "done" /\ \A j \in 1..Len(scores) : j # i => scores[j] < 0)
                => result = i

\* C10 witness: two devices without a present queue that differ in surface
\* formats, present modes and type were scored, followed by a rejected device,
\* and the call returned a device.
C10_Witness ==
    /\ fpc = "done"
    /\ Len(devices) = 3
    /\ scoredWithoutPresent(1)
    /\ scoredWithoutPresent(2)
    /\ devices[1].deviceType # devices[2].deviceType
    /\ devices[1].surfaceFormats # devices[2].surfaceFormats
    /\ devices[1].presentModes # devices[2].presentModes
    /\ scores[3] = -1
    /\ result = 2

(***************************************************************************)
(* Properties of Device::score (SpecScore).                                *)
(***************************************************************************)
\* C9: the call returns -1 exactly when the required features, the required
\* limits or the required extensions are not met, or when the negotiated queue
\* plan does not cover both graphics and compute; any other result is 0 or more.
C9_RejectExactly ==
    spc = "done" =>
        /\ (sRet = -1) <=>
            \/ sAnswers.features = "no"
            \/ sAnswers.limits = "no"
            \/ sAnswers.extensions = "no"
            \/ /\ sAnswers.extensions = "yes"
               /\ ~handlesGraphicsAndCompute(
                      deviceCapabilitiesOf(sState.queueFamilyIndicesAndCapabilities))
        /\ sRet # -1 => sRet >= 0

\* C9 witness: a device that met features, limits and extensions is rejected for
\* its queue plan, which covers graphics and present but not compute.
C9_Witness ==
    /\ spc = "done"
    /\ sAnswers = [features |-> "yes", limits |-> "yes", extensions |-> "yes"]
    /\ deviceCapabilitiesOf(sState.queueFamilyIndicesAndCapabilities) = {"graphics", "present"}
    /\ sRet = -1

(***************************************************************************)
(* Properties of the scores of two candidates of one list (SpecSelect).    *)
(***************************************************************************)
\* The place of a present mode in the order mailbox > fifo-relaxed > fifo >
\* immediate (4 is first), 0 for a mode the order does not name
presentModeRank(mode) ==
    CASE mode = "eMailbox" -> 4
      [] mode = "eFifoRelaxed" -> 3
      [] mode = "eFifo" -> 2
      [] mode = "eImmediate" -> 1
      [] OTHER -> 0

\* The rank of the best supported present mode of a candidate
bestPresentModeRank(hw) ==
    LET ranks == {presentModeRank(hw.presentModes[k]) : k \in 1..Len(hw.presentModes)} \cup {0}
    IN  CHOOSE r \in ranks : \A q \in ranks : q <= r

\* The two candidates answer alike except for their present modes
sameExceptPresentModes(a, b) ==
    [a EXCEPT !.presentModes = <<>>] = [b EXCEPT !.presentModes = <<>>]

\* The two candidates answer alike except for their surface formats
sameExceptSurfaceFormats(a, b) ==
    [a EXCEPT !.surfaceFormats = <<>>] = [b EXCEPT !.surfaceFormats = <<>>]

\* The candidate passes the hard requirements and has a present queue
scoredInFull(hw) ==
    /\ passesHardRequirements(hw)
    /\ handlesGraphicsAndCompute(hwCapabilities(hw))
    /\ "present" \in hwCapabilities(hw)

\* C11: of two candidates identical except for their best supported present mode,
\* the one whose best mode is earlier in the order mailbox > fifo-relaxed > fifo >
\* immediate gets the strictly higher total score.
C11_EarlierModeScoresHigher ==
    fpc = "done" =>
        \A i, j \in 1..Len(devices) :
            (/\ sameExceptPresentModes(devices[i], devices[j])
             /\ scoredInFull(devices[i])
             /\ bestPresentModeRank(devices[i]) > bestPresentModeRank(devices[j]))
            => scores[i] > scores[j]

\* long is short with one more element somewhere
oneAdded(long, short) ==
    /\ Len(long) = Len(short) + 1
    /\ \E k \in 1..Len(long) :
        short = SubSeq(long, 1, k - 1) \o SubSeq(long, k + 1, Len(long))

\* Candidate b is candidate a with one more present mode or one more surface format
oneMoreSupported(b, a) ==
    \/ sameExceptPresentModes(a, b) /\ oneAdded(b.presentModes, a.presentModes)
    \/ sameExceptSurfaceFormats(a, b) /\ oneAdded(b.surfaceFormats, a.surfaceFormats)

\* C12: for a candidate that passes the hard requirements and has a present queue,
\* adding a present mode or a surface format to its supported list never decreases
\* the value Device::score returns.
C12_AddingNeverDecreases ==
    fpc = "done" =>
        \A i, j \in 1..Len(devices) :
            (scoredInFull(devices[i]) /\ oneMoreSupported(devices[j], devices[i]))
            => scores[j] >= scores[i]

\* C12 witness: one list holds a candidate and the same candidate with one more
\* surface format, of a lower score than its best, and both were scored the same.
C12_Witness ==
    /\ fpc = "done"
    /\ \E i, j \in 1..Len(devices) :
        /\ scoredInFull(devices[i])
        /\ sameExceptSurfaceFormats(devices[i], devices[j])
        /\ oneAdded(devices[j].surfaceFormats, devices[i].surfaceFormats)
        /\ scores[j] = scores[i]
        /\ scores[i] > 0

(***************************************************************************)
(* Properties of Pipeline_vulkan (SpecPipeline).                           *)
(***************************************************************************)
reversed(seq) == [i \in 1..Len(seq) |-> seq[Len(seq) + 1 - i]]

positionIn(seq, x) == CHOOSE i \in 1..Len(seq) : seq[i] = x

kindsOf(log) == [i \in 1..Len(log) |-> log[i].kind]

\* C13: buildForDeviceChange creates shaders, vertex buffers, command buffers,
\* semaphores and the pipeline-state object in this order; teardownForDeviceChange
\* destroys them in exactly the reverse order, and destroys no resource while a
\* resource built after it still exists.
C13_TeardownReversesBuild ==
    \A p \in PipelineNames :
        /\ lastCall[p].name = "buildForDeviceChange" =>
            /\ kindsOf(callLog[p]) = <<"shaders", "vertexBuffers", "commandBuffers",
                                       "semaphores", "pipeline">>
            /\ \A i \in 1..Len(callLog[p]) : callLog[p][i].op = "create"
        /\ lastCall[p].name = "teardownForDeviceChange" =>
            /\ kindsOf(callLog[p]) = reversed(buildOrder[p])
            /\ \A i \in 1..Len(callLog[p]) :
                /\ callLog[p][i].op = "destroy"
                /\ \A k \in callLog[p][i].alive :
                    positionIn(buildOrder[p], k) <= positionIn(buildOrder[p], callLog[p][i].kind)

\* C13 witness: both pipelines have been torn down for a device change after
\* the swap-chain had been rebuilt once; when the semaphores were destroyed the
\* pipeline-state object was gone and everything built before them existed.
C13_Witness ==
    /\ wState = "noSwapchain"
    /\ generation = 2
    /\ \A p \in PipelineNames :
        /\ lastCall[p].name = "teardownForDeviceChange"
        /\ Len(callLog[p]) = 5
        /\ callLog[p][2].alive = {"shaders", "vertexBuffers", "commandBuffers", "semaphores"}
    /\ \E h \in live : h[2] = "framebuffers" /\ h[3] = 2

\* the per-image resources of a pipeline
perImage(self) ==
    <<self.vertexBuffers, self.vertexBufferMemory, self.commandBuffers,
      self.renderFinishedSemaphores>>

perImageHandles(self) ==
    Range(self.vertexBuffers) \cup {self.vertexBufferMemory} \cup Range(self.commandBuffers)
        \cup Range(self.renderFinishedSemaphores)

\* C14: buildForSwapchainChange reallocates the vertex buffers, the command
\* buffers and the semaphores if and only if the requested image count differs
\* from the number of command buffers held; with an equal count the three vectors
\* are unchanged; the shader modules and stages are unchanged in both cases.
C14_ReallocatesIffCountDiffers ==
    [][wState = "swapchainBuild" =>
        LET old == pipelines[nextPipeline]
            new == pipelines'[nextPipeline]
            n == Len(swapchainFramebuffers)
        IN  /\ n = Len(old.commandBuffers) => perImage(new) = perImage(old)
            /\ n # Len(old.commandBuffers) =>
                /\ Len(new.vertexBuffers) = n
                /\ Len(new.commandBuffers) = n
                /\ Len(new.renderFinishedSemaphores) = n
                /\ perImageHandles(new) \cap perImageHandles(old) = {}
                /\ perImageHandles(old) \cap live' = {}
                /\ perImageHandles(new) \subseteq live'
            /\ new.shaderModules = old.shaderModules
            /\ new.shaderStages = old.shaderStages
            /\ Range(new.shaderModules) \subseteq live']_vars

\* C14 witness: the swap-chain has been rebuilt twice, first with another image
\* count and then with the same: the pipelines hold the per-image resources of
\* the first rebuild and the shaders of the first build.
C14_Witness ==
    /\ wState = "ready"
    /\ generation = 3
    /\ \A p \in PipelineNames :
        /\ lastCall[p].name = "buildForSwapchainChange"
        /\ pipelines[p].commandBuffers[1][3] = 2
        /\ pipelines[p].vertexBuffers[1][3] = 2
        /\ pipelines[p].renderFinishedSemaphores[1][3] = 2
        /\ pipelines[p].shaderModules[1][3] = 1
        /\ pipelines[p].intrinsic[3] = 3

allInvalid(self) == \A i \in 1..Len(self.commandBuffersValid) : ~self.commandBuffersValid[i]

\* C15: after buildForDeviceChange or buildForSwapchainChange has returned every
\* valid bit is false; a render() submits a command buffer that was recorded
\* against the pipeline-state object the pipeline holds and the framebuffer of the
\* image, both of which exist: no command buffer recorded against a destroyed
\* pipeline object or framebuffer is ever submitted.
C15_NoStaleCommandBuffer ==
    /\ [](\A p \in PipelineNames :
            lastCall[p].name \in {"buildForDeviceChange", "buildForSwapchainChange"}
                => /\ allInvalid(pipelines[p])
                   /\ Len(pipelines[p].commandBuffersValid) = lastCall[p].count)
    /\ [][(wState = "frame" /\ frameNext <= Len(pipelineOrder)) =>
            LET p == nextPipeline
                batch == lastCall'[p].submits[1]
            IN  /\ batch.recording.pipeline = pipelines'[p].intrinsic
                /\ batch.recording.pipeline \in live'
                /\ batch.recording.framebuffer = swapchainFramebuffers'[frameImage]
                /\ batch.recording.framebuffer \in live'
                /\ batch.recording.vertexBuffer \in live']_vars

\* C15 witness: after a swap-chain rebuild that kept the command buffers, a
\* render() has recorded a kept command buffer again, against the new
\* pipeline-state object and the new framebuffer.
C15_Witness ==
    /\ wState = "frame"
    /\ generation = 2
    /\ LET p == pipelineOrder[1]
       IN  /\ lastCall[p].name = "render"
           /\ ~lastCall[p].validBefore
           /\ pipelines[p].commandBuffers[frameImage][3] = 1
           /\ pipelines[p].recorded[frameImage].pipeline[3] = 2
           /\ pipelines[p].recorded[frameImage].framebuffer[3] = 2

\* the last call on pipeline p recorded a command buffer
recordedNow(p) == \E i \in 1..Len(callLog[p]) : callLog[p][i].op = "record"

\* the swap-chain generation of the build that created the pipeline-state object
\* the pipeline holds (the code keeps no generation of its own)
builtGeneration(p) == pipelines[p].intrinsic[3]

inputOf(k) ==
    IF k = 1 THEN imageAvailableSemaphore ELSE lastCall[pipelineOrder[k - 1]].returned

\* C17: render(imageIndex, inputSemaphore) submits exactly one batch, which waits
\* on inputSemaphore, runs the command buffer of the image and signals
\* renderFinishedSemaphores[imageIndex], and returns that semaphore; in a frame
\* each pipeline waits on the semaphore the previous one returned, the first on
\* the image-available semaphore, and the presentation waits on the last one's.
C17_OneBatchChained ==
    /\ \A k \in 1..Len(pipelineOrder) :
        (wState = "frame" /\ frameNext > k) =>
            LET p == pipelineOrder[k]
            IN  /\ lastCall[p].name = "render"
                /\ lastCall[p].image = frameImage
                /\ Len(lastCall[p].submits) = 1
                /\ lastCall[p].submits[1].wait = inputOf(k)
                /\ lastCall[p].submits[1].commandBuffer = pipelines[p].commandBuffers[frameImage]
                /\ lastCall[p].submits[1].signal =
                       pipelines[p].renderFinishedSemaphores[frameImage]
                /\ lastCall[p].returned = pipelines[p].renderFinishedSemaphores[frameImage]
                /\ frameWait = lastCall[pipelineOrder[frameNext - 1]].returned
    /\ (wState = "ready" /\ lastCall[pipelineOrder[Len(pipelineOrder)]].name = "render") =>
            /\ presented.image = lastCall[pipelineOrder[Len(pipelineOrder)]].image
            /\ presented.wait = lastCall[pipelineOrder[Len(pipelineOrder)]].returned

\* C17 witness: the second image has been presented after both pipelines
\* rendered it, the second waiting on the semaphore of the first.
C17_Witness ==
    /\ wState = "ready"
    /\ presented.image = 2
    /\ lastCall["imagePipeline"].name = "render"
    /\ lastCall["flatPipeline"].name = "render"
    /\ lastCall["imagePipeline"].submits[1].wait = imageAvailableSemaphore
    /\ lastCall["flatPipeline"].submits[1].wait = pipelines["imagePipeline"].renderFinishedSemaphores[2]
    /\ presented.wait = pipelines["flatPipeline"].renderFinishedSemaphores[2]

\* C18: invalidateCommandBuffers sets every valid bit of the pipeline to false
\* and changes nothing else: no other member, no other pipeline, no object.
C18_InvalidateOnlyClearsBits ==
    [][(wState = "ready" /\ wState' = "ready") =>
        \E p \in PipelineNames :
            /\ lastCall'[p].name = "invalidateCommandBuffers"
            /\ allInvalid(pipelines'[p])
            /\ pipelines'[p] =
                   [pipelines[p] EXCEPT !.commandBuffersValid = pipelines'[p].commandBuffersValid]
            /\ Len(pipelines'[p].commandBuffersValid) = Len(pipelines[p].commandBuffersValid)
            /\ \A q \in PipelineNames \ {p} : pipelines'[q] = pipelines[q]
            /\ live' = live
            /\ swapchainFramebuffers' = swapchainFramebuffers]_vars

\* C18 witness: invalidateCommandBuffers was the last call on a pipeline with two
\* command buffers that both hold a recording (both bits had been set).
C18_Witness ==
    \E p \in PipelineNames :
        /\ lastCall[p].name = "invalidateCommandBuffers"
        /\ Len(pipelines[p].commandBuffersValid) = 2
        /\ allInvalid(pipelines[p])
        /\ \A i \in 1..2 : pipelines[p].recorded[i].pipeline = pipelines[p].intrinsic

\* the members with the generation taken out of every handle
unstamped(h) == <<h[1], h[2], h[4]>>

abstractState(self) ==
    [shaderModules |-> [i \in 1..Len(self.shaderModules) |-> unstamped(self.shaderModules[i])],
     vertexBuffers |-> [i \in 1..Len(self.vertexBuffers) |-> unstamped(self.vertexBuffers[i])],
     vertexBufferMemory |-> unstamped(self.vertexBufferMemory),
     commandBuffers |-> [i \in 1..Len(self.commandBuffers) |-> unstamped(self.commandBuffers[i])],
     commandBuffersValid |-> self.commandBuffersValid,
     recorded |-> self.recorded,
     renderFinishedSemaphores |->
        [i \in 1..Len(self.renderFinishedSemaphores) |->
            unstamped(self.renderFinishedSemaphores[i])],
     pipelineLayout |-> unstamped(self.pipelineLayout),
     intrinsic |-> unstamped(self.intrinsic)]

\* the handles the members of a pipeline hold
heldHandles(self) ==
    Range(self.shaderModules) \cup perImageHandles(self)
        \cup {self.pipelineLayout, self.intrinsic}

\* a pipeline that has never been built, built for n images
builtFromNew(p, n) ==
    buildForDeviceChange([name |-> p, stamp |-> 0, self |-> newPipeline, live |-> {},
                          log |-> <<>>], n)

\* C19: buildForDeviceChange(renderPass, extent, n), also on an instance that has
\* been torn down by teardownForDeviceChange, gives the state that building a
\* never-built instance gives: n vertex buffers, n command buffers, n valid bits
\* all false, n semaphores, and no object of the pipeline left over from before.
C19_BuildAfterTeardownAsNew ==
    \A p \in PipelineNames :
        lastCall[p].name = "buildForDeviceChange" =>
            LET n == lastCall[p].count
            IN  /\ abstractState(pipelines[p]) = abstractState(builtFromNew(p, n).self)
                /\ Len(pipelines[p].vertexBuffers) = n
                /\ Len(pipelines[p].commandBuffers) = n
                /\ Len(pipelines[p].commandBuffersValid) = n
                /\ allInvalid(pipelines[p])
                /\ Len(pipelines[p].renderFinishedSemaphores) = n
                /\ {h \in live : h[1] = p} = heldHandles(pipelines[p])

\* C19 witness: both pipelines have been torn down for a device change and built
\* again, for one image; their shaders are those of the second build.
C19_Witness ==
    /\ generation = 2
    /\ wState = "ready"
    /\ Len(swapchainFramebuffers) = 1
    /\ \A p \in PipelineNames :
        /\ lastCall[p].name = "buildForDeviceChange"
        /\ lastCall[p].count = 1
        /\ pipelines[p].shaderModules[1][3] = 2

\* the objects of pipeline p that exist
ownedLive(p) == {h \in live : h[1] = p}

\* C37: with every teardown followed by its build (the order of the window's
\* calls), for a device change or a swap-chain change with an equal or another
\* image count: every object of a pipeline that exists is held by a member of
\* the pipeline, so none is left alive when its member is assigned a new one;
\* a call destroys objects of a kind only while that kind exists and creates
\* objects of a kind only while none of that kind exists, so none is destroyed
\* twice; and the command buffer a render() submits, what it recorded, and the
\* semaphore it signals and returns all exist.
C37_HandlesDestroyedOnce ==
    \A p \in PipelineNames :
        /\ ownedLive(p) \subseteq heldHandles(pipelines[p])
        /\ \A i \in 1..Len(callLog[p]) :
            /\ callLog[p][i].op = "destroy" => callLog[p][i].kind \in callLog[p][i].alive
            /\ callLog[p][i].op = "create" => callLog[p][i].kind \notin callLog[p][i].alive
        /\ lastCall[p].name = "render" =>
            LET batch == lastCall[p].submits[1]
            IN  /\ batch.commandBuffer \in ownedLive(p)
                /\ batch.signal \in ownedLive(p)
                /\ batch.recording.pipeline \in ownedLive(p)
                /\ batch.recording.vertexBuffer \in ownedLive(p)
                /\ lastCall[p].returned \in ownedLive(p)
                /\ heldHandles(pipelines[p]) = ownedLive(p)

\* C37 witness: a pipeline built for a device, rebuilt for a swap-chain with
\* another image count and rebuilt again for one with the same count has
\* rendered: its shaders are of the first build, its per-image objects of the
\* second and its pipeline-state object of the third, and nothing else of it
\* exists.
C37_Witness ==
    \E p \in PipelineNames :
        /\ lastCall[p].name = "render"
        /\ pipelines[p].shaderModules[1][3] = 1
        /\ pipelines[p].commandBuffers[1][3] = 2
        /\ pipelines[p].intrinsic[3] = 3
        /\ ownedLive(p) = heldHandles(pipelines[p])

iterating(t, d) == pc[t] \in {"iterate", "inWindow"} /\ deviceOf(t) = d
modifying(t, d) == pc[t] \in {"insert", "erase"} /\ deviceOf(t) = d

\* C22: a frameUpdate iterates the windows of a device only while it is a shared
\* owner of the device's lock, add and remove modify the set only while they
\* are the exclusive owner, and no step changes the set of a device while a
\* frameUpdate iterates it.
C22_WindowsSetProtected ==
    /\ [](\A t \in Threads, d \in DeviceNames :
            /\ iterating(t, d) => t \in stateMutex[d].shared
            /\ modifying(t, d) => stateMutex[d].exclusive = t)
    /\ [][\A d \in DeviceNames :
            windows'[d] # windows[d] =>
                /\ \E t \in Threads : modifying(t, d) /\ stateMutex[d].exclusive = t
                /\ \A t \in Threads : ~iterating(t, d)]_vars

\* C22 witness: a remove waits as upgrade owner of a device while a
\* frameUpdate, a shared owner, is inside the frame of its window.
C22_Witness ==
    \E t, u \in Threads, d \in DeviceNames :
        /\ pc[t] = "upgrade" /\ call[t].op = "remove" /\ deviceOf(t) = d
        /\ stateMutex[d].upgrade = t
        /\ pc[u] = "inWindow" /\ deviceOf(u) = d
        /\ windows[d] = WindowNames
        /\ u \in stateMutex[d].shared

C31_TeardownBeforePointerReplaced ==
    /\ [](\A t \in Threads :
            pc[t] = "teardown" =>
                /\ windowState[windowOf(t)] = "DeviceLost"
                /\ windowDevice[windowOf(t)] # "nullptr"
                /\ guiMutex = t)
    /\ [][\A t \in Threads :
            LET w == windowOf(t)
            IN  /\ pc[t] = "setDevice" /\ pc'[t] # "setDevice" =>
                    /\ windowDevice' = windowDevice
                    /\ IF windowDevice[w] # "nullptr"
                       THEN pc'[t] = "teardown" /\ windowState'[w] = "DeviceLost"
                       ELSE pc'[t] = "assign" /\ windowState' = windowState
                /\ pc[t] = "teardown" /\ pc'[t] # "teardown" =>
                    /\ pc'[t] = "assign"
                    /\ windowDevice' = windowDevice
                    /\ windowState' = windowState
                /\ pc[t] = "assign" /\ pc'[t] # "assign" =>
                    /\ windowDevice'[w] = IF call[t].op = "add" THEN deviceOf(t)
                                          ELSE "nullptr"
                    /\ windowState' = windowState]_vars

\* C31 witness: a window attached to device A is being added to device B, and
\* its teardown runs while its device pointer is still A.
C31_Witness ==
    \E t \in Threads :
        /\ pc[t] = "teardown"
        /\ call[t].op = "add"
        /\ deviceOf(t) = "B"
        /\ windowDevice[windowOf(t)] = "A"
        /\ windowState[windowOf(t)] = "DeviceLost"

\* C38: under any interleaving of Device::add calls initializeDevice runs at
\* most once for a device (the logical device is created at most once), and
\* while a window's frameUpdate called by a device's frameUpdate is running,
\* the state of that device is READY_TO_DRAW and its logical device exists.
C38_DeviceCreatedOnce ==
    \A d \in DeviceNames :
        /\ created[d] <= 1
        /\ \A t \in Threads :
            pc[t] = "inWindow" /\ deviceOf(t) = d =>
                dState[d] = "READY_TO_DRAW" /\ intrinsic[d]

(***************************************************************************)
(* Properties of start_subsystem, stop_subsystem and shutdown_system       *)
(* (SpecSubsystem).                                                        *)
(***************************************************************************)
initOf(s) == <<"init", s>>
deinitOf(s) == <<"deinit", s>>
startReturns(t) == upc[t] = "detail" /\ upc'[t] = "idle"
someInit(functions) == \E s \in Subsystems : initOf(s) \in Range(functions)

\* C24: a start_subsystem call runs the init function exactly when, under the
\* mutex, the check variable is off and the system is running; when the system
\* is not running it returns the off value, and when the subsystem is already
\* on it returns the current value, in both cases calling nothing and leaving
\* the deinit list and the check variable as they are. No other step calls an
\* init function.
C24_InitOnlyWhenOffAndRunning ==
    [][/\ \A t \in Threads :
            startReturns(t) =>
                LET s == ucall[t].s
                    off == check_variable[s] = off_value
                IN  /\ lastReturn'.op = "start_subsystem" /\ lastReturn'.s = s
                    /\ lastReturn'.called = <<initOf(s)>> <=>
                            (off /\ system_status = "running")
                    /\ lastReturn'.called # <<initOf(s)>> =>
                        /\ lastReturn'.called = <<>>
                        /\ subsystem_deinit_list' = subsystem_deinit_list
                        /\ check_variable' = check_variable
                    /\ off /\ system_status # "running" => lastReturn'.returned = off_value
                    /\ ~off => lastReturn'.returned = check_variable[s]
       /\ (\A t \in Threads : ~startReturns(t)) =>
            /\ lastReturn' # lastReturn => ~someInit(lastReturn'.called)
            /\ \A t \in Threads : ~someInit(called'[t])]_vars

\* C24 witness: while the system is running, a start_subsystem call has just
\* run the init function of subsystem 2 and registered its deinit function
\* after that of subsystem 1.
C24_Witness ==
    /\ system_status = "running"
    /\ lastReturn.op = "start_subsystem"
    /\ lastReturn.called = <<initOf(2)>>
    /\ lastReturn.returned # off_value
    /\ subsystem_deinit_list = <<1, 2>>
    /\ check_variable[2] = lastReturn.returned

\* C25: a start_subsystem call that finds the system shut down has its deinit
\* function called directly and registers nothing, and no step adds a deinit
\* function to the list once the system is shut down.
C25_DeinitCalledDirectlyAfterShutdown ==
    [][/\ \A t \in Threads :
            startReturns(t) /\ system_status = "shutdown"
                /\ check_variable[ucall[t].s] = off_value =>
                /\ deinitOf(ucall[t].s) \in Range(lastReturn'.called)
                /\ subsystem_deinit_list' = subsystem_deinit_list
       /\ system_status = "shutdown" =>
            Range(subsystem_deinit_list') \subseteq Range(subsystem_deinit_list)]_vars

\* C26: a stop_subsystem call that finds its subsystem on sets the check
\* variable to the off value, erases the deinit function from the list and calls
\* it exactly once before it returns; a stop_subsystem call that finds its
\* subsystem off returns with nothing called and nothing changed.
C26_StopCallsDeinitOnce ==
    /\ [](\A t \in Threads :
            upc[t] = "stop_deinit" =>
                /\ check_variable[ucall[t].s] = off_value
                /\ ucall[t].s \notin Range(subsystem_deinit_list)
                /\ called[t] = <<>>)
    /\ [][/\ \A t \in Threads :
                /\ upc[t] = "idle" /\ upc'[t] = "stop_deinit" =>
                    /\ check_variable[ucall'[t].s] # off_value
                    /\ subsystem_deinit_list' =
                            erase(subsystem_deinit_list, ucall'[t].s)
                /\ upc[t] = "stop_deinit" /\ upc'[t] # "stop_deinit" =>
                    /\ lastReturn'.op = "stop_subsystem"
                    /\ lastReturn'.called = <<deinitOf(ucall[t].s)>>
                    /\ upc'[t] = "idle"
          /\ upc' = upc /\ lastReturn' # lastReturn /\ lastReturn'.op = "stop_subsystem" =>
                /\ lastReturn'.called = <<>>
                /\ check_variable[lastReturn'.s] = off_value
                /\ check_variable' = check_variable
                /\ subsystem_deinit_list' = subsystem_deinit_list]_vars

\* C26 witness: with two subsystems registered, a stop_subsystem call has just
\* stopped subsystem 1: it called its deinit function once and left subsystem 2
\* registered and on.
C26_Witness ==
    /\ lastReturn.op = "stop_subsystem"
    /\ lastReturn.called = <<deinitOf(1)>>
    /\ check_variable[1] = off_value
    /\ check_variable[2] # off_value
    /\ subsystem_deinit_list = <<2>>
    /\ system_status = "running"

occurrences(list, s) == Cardinality({i \in DOMAIN list : list[i] = s})
initExecuted(record, s) ==
    /\ record.op = "start_subsystem"
    /\ record.s = s
    /\ record.called = <<initOf(s)>>

\* C33: under any interleaving of start_subsystem calls for the same subsystem
\* while the system is running, the init function is executed at most once (no
\* two start_subsystem calls that return one after the other have both
\* executed it; a stop_subsystem holds the mutex until it returns, so none
\* comes between them), the deinit function is at most once in the deinit
\* list, and a caller that returns another value than the off value returns
\* the value of the check variable that the init stored.
C33_InitAtMostOnce ==
    /\ [](\A s \in Subsystems : occurrences(subsystem_deinit_list, s) <= 1)
    /\ [][\A s \in Subsystems :
            /\ lastReturn' # lastReturn /\ initExecuted(lastReturn', s) =>
                    ~initExecuted(lastReturn, s)
            /\ lastReturn' # lastReturn /\ lastReturn'.op = "start_subsystem"
                /\ lastReturn'.s = s /\ lastReturn'.returned # off_value =>
                    lastReturn'.returned = check_variable'[s]]_vars

\* C33, amended: the init function of a subsystem is executed only while its
\* check variable is off, its deinit function is not in the list and no
\* successful init is outstanding; an init that returns another value than the
\* off value stores it and registers the deinit function once, and an init that
\* returns the off value changes nothing, so that a later call executes init
\* again.  The deinit function is at most once in the list, at most one
\* successful init is outstanding, and a caller that returns another value
\* than the off value returns the stored one.
C33_SuccessfulInitAtMostOnce ==
    /\ [](\A s \in Subsystems :
            /\ occurrences(subsystem_deinit_list, s) <= 1
            /\ active[s] <= 1
            /\ system_status = "running" /\ check_variable[s] # off_value =>
                    active[s] = 1 /\ s \in Range(subsystem_deinit_list))
    /\ [][\A s \in Subsystems :
            /\ lastReturn' # lastReturn /\ initExecuted(lastReturn', s) =>
                /\ check_variable[s] = off_value
                /\ s \notin Range(subsystem_deinit_list)
                /\ active[s] = 0
                /\ IF lastReturn'.returned # off_value
                   THEN /\ subsystem_deinit_list' = Append(subsystem_deinit_list, s)
                        /\ active'[s] = 1
                   ELSE /\ subsystem_deinit_list' = subsystem_deinit_list
                        /\ check_variable' = check_variable
                        /\ active' = active
            /\ lastReturn' # lastReturn /\ lastReturn'.op = "start_subsystem"
                /\ lastReturn'.s = s /\ lastReturn'.returned # off_value =>
                    lastReturn'.returned = check_variable'[s]]_vars

\* C33 witness: two threads found subsystem 1 off outside the mutex; the init
\* of the first has just succeeded, and the second is still to enter
\* detail::start_subsystem, where it finds the subsystem on.
C33_Witness ==
    \E t \in Threads :
        /\ upc[t] = "detail"
        /\ ucall[t].s = 1
        /\ initExecuted(lastReturn, 1)
        /\ lastReturn.returned # off_value
        /\ check_variable[1] = lastReturn.returned
        /\ system_status = "running"

\* C34: the deinit function of a subsystem is called at most once for each
\* successful init of it: the deinit calls of stop_subsystem and
\* shutdown_system together never outnumber the successful inits.
C34_DeinitAtMostOncePerStart ==
    \A s \in Subsystems : active[s] >= 0

inShutdown(t) == upc[t] \in {"loop", "deinit", "relock"}
\* shutdown_system takes the last registered function off the list
popsBack(t) ==
    /\ upc[t] = "loop" /\ upc'[t] = "deinit"
    /\ subsystem_deinit_list # <<>>
    /\ ucall'[t].s = subsystem_deinit_list[Len(subsystem_deinit_list)]
    /\ subsystem_deinit_list' =
            SubSeq(subsystem_deinit_list, 1, Len(subsystem_deinit_list) - 1)
\* what shutdown_system does with a function it has taken, and how it ends
shutdownSteps(t) ==
    /\ upc[t] = "deinit" /\ upc'[t] # "deinit" =>
        /\ called'[t] = Append(called[t], deinitOf(ucall[t].s))
        /\ subsystem_mutex # t
    /\ inShutdown(t) /\ ~inShutdown(t)' =>
        /\ upc[t] = "loop"
        /\ subsystem_deinit_list = <<>> /\ subsystem_deinit_list' = <<>>
        /\ system_status' = "shutdown"
        /\ subsystem_mutex' = 0
        /\ lastReturn' = [op |-> "shutdown_system", s |-> 1, called |-> called[t],
                          returned |-> off_value]
shutdownStates ==
    /\ \A t \in Threads : upc[t] = "deinit" => subsystem_mutex # t
    /\ (\E t \in Threads : inShutdown(t)) => system_status = "shutdown"
    /\ system_status = "shutdown" /\ (\A t \in Threads : ~inShutdown(t)) =>
            subsystem_deinit_list = <<>>

noWriteInProgress == \A t \in Threads : wpc[t] = "idle"

\* C27: whenever no write() is in progress count and version are equal, so a
\* read() can leave its loop, and a read() that has returned after the writes
\* completed holds their number as count and the sum of their durations as
\* duration.
C27_ReadAfterWritesIsExact ==
    noWriteInProgress =>
        /\ count = version
        /\ read_result.returned /\ read_result.count = count =>
            /\ read_result.count = written.count
            /\ read_result.duration = written.duration

(***************************************************************************)
(* Properties of gap_buffer (SpecGap).                                     *)
(***************************************************************************)
\* C28: at(index) throws std::out_of_range when index >= size(), and otherwise
\* gives the item operator[](index) gives, whatever the content and the
\* position of the gap.
C28_AtChecksRange ==
    got.op = "at" =>
        IF got.index >= size(buffer)
        THEN got.outcome = "out_of_range"
        ELSE {got.outcome} = index_operator(buffer, got.index)

(***************************************************************************)
(* Properties of small_map (SpecSmallMap).                                 *)
(***************************************************************************)
keysOf(entries) == {entries[i].key : i \in 1..Len(entries)}
absentBefore == inserted.called /\ inserted.key \notin keysOf(inserted.before)
presentBefore == inserted.called /\ inserted.key \in keysOf(inserted.before)

\* C29: the map never holds more than N entries; an insert of an absent key
\* returns true and adds one entry when there were fewer than N, and returns
\* false and leaves the entries as they were when there were N.
C29_NeverMoreThanN ==
    /\ Len(items) <= SmallMapN
    /\ absentBefore =>
        IF Len(inserted.before) < SmallMapN
        THEN /\ inserted.result
             /\ Len(items) = Len(inserted.before) + 1
        ELSE /\ ~inserted.result
             /\ items = inserted.before

\* C29 witness: the map holds N entries and the last insert, of a key that is
\* not among them, returned false.
C29_Witness ==
    /\ Len(items) = SmallMapN
    /\ absentBefore
    /\ Len(inserted.before) = SmallMapN
    /\ ~inserted.result

\* C30: an insert of a key that is present returns true, also when the map is
\* full, replaces the value and leaves the number of entries as it was; get(k)
\* returns the value of the last insert of k that returned true and nothing for
\* a key never inserted, for which get(k, d) returns d.
C30_InsertReplacesGetReturnsLatest ==
    /\ presentBefore =>
        /\ inserted.result
        /\ Len(items) = Len(inserted.before)
        /\ keysOf(items) = keysOf(inserted.before)
    /\ \A k \in Keys :
        /\ Cardinality(positionsOf(items, k)) <= 1
        /\ latest[k] # nullopt <=> k \in keysOf(items)
        /\ k \in keysOf(items) => items[firstOf(items, k)].value = latest[k]
    /\ fetched.called =>
        fetched.result = IF fetched.latest # nullopt THEN fetched.latest
                         ELSE fetched.default_value

\* C30 witness: the map is full, the last insert gave a key that was present
\* with another value a new value and returned true, and the last get of that
\* key returned the new value.
C30_Witness ==
    /\ Len(items) = SmallMapN
    /\ presentBefore
    /\ inserted.result
    /\ inserted.before[firstOf(inserted.before, inserted.key)].value # inserted.value
    /\ fetched.called
    /\ fetched.key = inserted.key
    /\ fetched.latest = latest[fetched.key]
    /\ fetched.result = inserted.value

(***************************************************************************)
(* Properties of Pipeline_vulkan under any order of calls                  *)
(* (SpecPipelineCalls).                                                    *)
(***************************************************************************)
\* C36: after any sequence of buildForDeviceChange, teardownForDeviceChange,
\* buildForSwapchainChange, teardownForSwapchainChange and
\* invalidateCommandBuffers the command buffers, the valid bits, the
\* render-finished semaphores and the vertex buffers of a pipeline are lists
\* of the same length, and a render(imageIndex) with imageIndex below the
\* number of command buffers finds imageIndex inside each of the four.
C36_ListsHaveSameLength ==
    /\ [](\A p \in PipelineNames :
            LET self == pipelines[p]
            IN  /\ Len(self.commandBuffersValid) = Len(self.commandBuffers)
                /\ Len(self.renderFinishedSemaphores) = Len(self.commandBuffers)
                /\ Len(self.vertexBuffers) = Len(self.commandBuffers))
    /\ [][\A p \in PipelineNames :
            lastCall'[p] # lastCall[p] /\ lastCall'[p].name = "render" =>
                LET self == pipelines[p]
                    imageIndex == lastCall'[p].image
                IN  /\ imageIndex \in DOMAIN self.commandBuffers
                    /\ imageIndex \in DOMAIN self.commandBuffersValid
                    /\ imageIndex \in DOMAIN self.renderFinishedSemaphores
                    /\ imageIndex \in DOMAIN self.vertexBuffers]_vars

\* C36 witness: after a pipeline was built by buildForDeviceChange and later
\* rebuilt for MaxImages images by buildForSwapchainChange, render() was
\* called for the last image and returned the semaphore of that image.
C36_Witness ==
    \E p \in PipelineNames :
        /\ lastCall[p].name = "render"
        /\ lastCall[p].image = MaxImages
        /\ Len(pipelines[p].commandBuffers) = MaxImages
        /\ pipelines[p].shaderModules # <<>>
        /\ pipelines[p].shaderModules[1][3] < pipelines[p].commandBuffers[1][3]
        /\ lastCall[p].returned = pipelines[p].renderFinishedSemaphores[MaxImages]

(***************************************************************************)
(* Properties of the window lifecycle (SpecWindow).                        *)
(***************************************************************************)
\* C32: a window is in state Initializing until a delegate callback has
\* returned or a device was lost; its state becomes NoDevice only in the step
\* in which the delegate's openingWindow returns and NoWindow only in the step
\* in which the delegate's closingWindow returns; the destructor of a window
\* in any other state than NoWindow aborts the process, so that a destructed
\* window is in state NoWindow and its closingWindow callback has returned.
C32_WindowLifecycle ==
    /\ [](\A w \in Windows :
            /\ returned[w] = {} /\ lifecycle[w] # "DeviceLost" =>
                   lifecycle[w] = "Initializing"
            /\ lpc[w] = "destructed" =>
                   /\ lifecycle[w] = "NoWindow"
                   /\ "closingWindow" \in returned[w])
    /\ [][\A w \in Windows :
            /\ lifecycle'[w] = "NoDevice" /\ lifecycle[w] # "NoDevice" =>
                   lpc[w] = "openingWindow" /\ lpc'[w] = "idle"
            /\ lpc[w] = "openingWindow" /\ lpc'[w] = "idle" =>
                   lifecycle'[w] = "NoDevice"
            /\ lpc[w] # "openingWindow" /\ lpc'[w] = "openingWindow" =>
                   lifecycle'[w] = lifecycle[w]
            /\ lifecycle'[w] = "NoWindow" /\ lifecycle[w] # "NoWindow" =>
                   lpc[w] = "closingWindow" /\ lpc'[w] = "idle"
            /\ lpc[w] = "closingWindow" /\ lpc'[w] = "idle" =>
                   lifecycle'[w] = "NoWindow"
            /\ lpc[w] = "idle" /\ lpc'[w] = "destructed" =>
                   lifecycle[w] = "NoWindow"
            /\ aborted' /\ ~aborted =>
                   \E v \in Windows : lpc[v] = "idle" /\ lifecycle[v] # "NoWindow"]_vars

\* C32 witness: one window was opened, closed and destructed without abort,
\* while another one, never closed, is still open.
C32_Witness ==
    \E w, v \in Windows :
        /\ lpc[w] = "destructed"
        /\ returned[w] = {"openingWindow", "closingWindow"}
        /\ lifecycle[v] = "NoDevice"
        /\ ~aborted

====
